---- MODULE Spec2Model ----
(***************************************************************************)
(* A model of the BookStack -> Wiki.js synchronisation scripts:             *)
(*   - class BookStackToWikiJSSync (src/wiki_sync.js, lines 49-762),        *)
(*   - class Sync, the "production" variant (src/unnamed/part_000 and the   *)
(*     second script of src/wiki_sync.js, lines 858-1104).                  *)
(*                                                                         *)
(* JavaScript strings are modelled as sequences of UTF-16 code units, each  *)
(* code unit written as a TLA+ string ("a", "B", "!", "U+0130").  The value *)
(* undefined of an optional slug is modelled as the empty sequence: every   *)
(* place of the code that reads such a slug treats undefined and '' alike   *)
(* (a truthiness test, "||", or Array.prototype.join).                      *)
(***************************************************************************)
EXTENDS Integers, Sequences, FiniteSets, TLC

VARIABLES
    pc,          \* position of the running process inside run() ("idle": none)
    runs,        \* number of processes started so far
    faults,      \* number of failures the environment has injected so far
    config,      \* config.sync of the running (or last) process
    disk,        \* the file at STATE_PATH
    state,       \* this.state
    stats,       \* this.stats
    hierarchy,   \* the result of fetchBookStackHierarchy
    wikiJSUsers, \* this.wikiJSUsers
    work,        \* the items the current loop has still to process
    wiki,        \* the pages held by the target, by path
    net,         \* calls issued by the running (or last) process
    last,        \* the last handler invocation: its input, calls and result
    hist,        \* per asset: calls, downloads and uploads of its state lifetime
    prev,        \* what the previous process left behind
    resolved,    \* every path resolution made so far: slugs and result
    exitCode,    \* exit status of the last finished process (-1: none yet)
    pt,          \* the path pipeline on one page: inputs, enriched page, path
    sy,          \* a process of the Sync class: its fields, calls and target
    tc,          \* one call of transformContent: content, assetMap, result
    pg,          \* two listings in a row: the source's answers, the results
    cp           \* one call of part_000's processContent and its transfers

mainVars == <<pc, runs, faults, config, disk, state, stats, hierarchy,
              wikiJSUsers, work, wiki, net, last, hist, prev, resolved,
              exitCode>>
vars == <<mainVars, pt, sy, tc, pg, cp>>

\* Bounds of the model.
MaxRuns == 2
MaxFaults == 1
\* config.bookstack.pageSize of the modelled configuration.
PageSize == 2

----------------------------------------------------------------------------
(* Strings                                                                  *)

UpperCase == <<"A","B","C","D","E","F","G","H","I","J","K","L","M",
               "N","O","P","Q","R","S","T","U","V","W","X","Y","Z">>
LowerCase == <<"a","b","c","d","e","f","g","h","i","j","k","l","m",
               "n","o","p","q","r","s","t","u","v","w","x","y","z">>
Digits == {"0","1","2","3","4","5","6","7","8","9"}

\* String.prototype.toLowerCase on one code unit.  ASCII capitals map to
\* their small letters; U+0130 (capital I with dot above) maps to the two
\* code units "i" U+0307 (Unicode SpecialCasing, locale-insensitive); every
\* other code unit of the model's alphabet is unchanged.
toLowerCaseUnit(c) ==
    IF \E i \in 1..Len(UpperCase) : UpperCase[i] = c
    THEN <<LowerCase[CHOOSE i \in 1..Len(UpperCase) : UpperCase[i] = c]>>
    ELSE IF c = "U+0130" THEN <<"i", "U+0307">>
    ELSE <<c>>

RECURSIVE toLowerCase(_)
toLowerCase(s) ==
    IF s = <<>> THEN <<>>
    ELSE toLowerCaseUnit(Head(s)) \o toLowerCase(Tail(s))

\* The character class [a-z0-9\/\-_] of getPagePath's regular expression.
PathCharClass ==
    {LowerCase[i] : i \in 1..Len(LowerCase)} \cup Digits \cup {"/", "-", "_"}

\* A replacement by the empty string.
replaceDisallowedDropping(s) ==
    SelectSeq(s, LAMBDA c : c \in PathCharClass)

\* s.replace(/[^a-z0-9\/\-_]/g, '-'): without the u flag the expression
\* matches code unit by code unit.
replaceDisallowed(s) ==
    [i \in 1..Len(s) |-> IF s[i] \in PathCharClass THEN s[i] ELSE "-"]

\* Array.prototype.join
RECURSIVE join(_, _)
join(parts, sep) ==
    IF parts = <<>> THEN <<>>
    ELSE IF Len(parts) = 1 THEN parts[1]
    ELSE parts[1] \o sep \o join(Tail(parts), sep)

\* s.split('/').length: one more than the number of "/" code units.
splitLength(s, c) == 1 + Cardinality({i \in 1..Len(s) : s[i] = c})

Uncategorized == <<"u","n","c","a","t","e","g","o","r","i","z","e","d">>

----------------------------------------------------------------------------
(* Hierarchy enrichment and path resolution                                 *)

\* Array.prototype.find(n => n.id === id)?.slug : the slug of the first node
\* with that id, undefined (here <<>>) when there is none.
findSlug(nodes, id) ==
    IF \E i \in 1..Len(nodes) : nodes[i].id = id
    THEN nodes[CHOOSE i \in 1..Len(nodes) :
                  /\ nodes[i].id = id
                  /\ \A j \in 1..(i-1) : nodes[j].id # id].slug
    ELSE <<>>

\* A path that depends on whether the page has been synced before.
getPagePathOfState(page, separator) ==
    IF page.id \in DOMAIN state.pageMap
    THEN replaceDisallowed(toLowerCase(join(<<page.slug>>, separator)))
    ELSE replaceDisallowed(toLowerCase(join(
            (IF page.shelfSlug # <<>> THEN <<page.shelfSlug>> ELSE <<>>)
            \o (IF page.bookSlug # <<>> THEN <<page.bookSlug>> ELSE <<>>)
            \o (IF page.chapterSlug # <<>> THEN <<page.chapterSlug>> ELSE <<>>)
            \o <<page.slug>>, separator)))

\* Path parts with the book ahead of the shelf.
pagePartsBookFirst(page) ==
    (IF page.bookSlug # <<>> THEN <<page.bookSlug>> ELSE <<>>)
    \o (IF page.shelfSlug # <<>> THEN <<page.shelfSlug>> ELSE <<>>)
    \o (IF page.chapterSlug # <<>> THEN <<page.chapterSlug>> ELSE <<>>)
    \o <<page.slug>>

\* The parts getPagePath pushes: each ancestor slug that is set, then the
\* page's slug.
pageParts(page) ==
    (IF page.shelfSlug # <<>> THEN <<page.shelfSlug>> ELSE <<>>)
    \o (IF page.bookSlug # <<>> THEN <<page.bookSlug>> ELSE <<>>)
    \o (IF page.chapterSlug # <<>> THEN <<page.chapterSlug>> ELSE <<>>)
    \o <<page.slug>>

getPagePath(page, separator) ==
    replaceDisallowed(toLowerCase(join(pageParts(page), separator)))

----------------------------------------------------------------------------
(* The source (BookStack), the target's users and the configuration         *)

\* Ids are positive; 0 stands for a missing (undefined / null) id.
SrcShelves == << [id |-> 1, slug |-> <<"S">>] >>
SrcBooks == << [id |-> 1, slug |-> <<"b">>] >>
SrcChapters == << [id |-> 1, slug |-> <<"c">>] >>

\* The /pages listing, in listing order.  Page 3 is a draft whose slug
\* differs from page 2's in case only.
SrcPages == <<
    [id |-> 1, name |-> "One", slug |-> <<"p">>, draft |-> FALSE,
     shelf_id |-> 1, book_id |-> 1, chapter_id |-> 1],
    [id |-> 2, name |-> "Two", slug |-> <<"q">>, draft |-> FALSE,
     shelf_id |-> 0, book_id |-> 1, chapter_id |-> 0],
    [id |-> 3, name |-> "Three", slug |-> <<"Q">>, draft |-> TRUE,
     shelf_id |-> 0, book_id |-> 1, chapter_id |-> 0] >>

\* Page content is a sequence of tokens: plain text, an inline image
\* reference ![alt](/uploads/images/gallery/<dir>/<file>) and an attachment
\* link [name](/attachments/<id>).
Text(t) == [k |-> "text", t |-> t]
ImageRef(alt, file) == [k |-> "image", alt |-> alt, file |-> file]
AttachmentRef(name, id) == [k |-> "attachment", name |-> name, id |-> id]
\* What a reference is rewritten to: the same markup around the locator.
ImageTo(alt, locator) == [k |-> "imageTo", alt |-> alt, to |-> locator]
LinkTo(name, locator) == [k |-> "linkTo", name |-> name, to |-> locator]

\* GET /pages/{id}: the page's detail.
SrcDetail(id) ==
    CASE id = 1 -> [markdown |-> <<Text("t"), ImageRef("a", <<"f">>),
                                  AttachmentRef("n", 2)>>,
                    created_by |-> 1, updated_by |-> 2]
      [] id = 2 -> [markdown |-> <<>>, created_by |-> 2, updated_by |-> 2]
      [] OTHER  -> [markdown |-> <<Text("d")>>, created_by |-> 1,
                    updated_by |-> 1]

\* GET /users/{id}: the user's email.
SrcUserEmail(id) == IF id = 1 THEN "one@example.com" ELSE "two@example.com"

\* /image-gallery and /attachments: image 1 and attachment 1 share their id.
SrcImages == << [id |-> 1, name |-> <<"f">>] >>
SrcAttachments == << [id |-> 1, name |-> <<"g">>], [id |-> 2, name |-> <<"h">>] >>

\* The target's user list and config.wikijs.defaultUserEmail.
DefaultUserEmail == "admin@example.com"
WikiUsers == << [id |-> 10, email |-> "admin@example.com"],
                [id |-> 11, email |-> "one@example.com"] >>

Separators == { <<"/">>, <<"-">> }

----------------------------------------------------------------------------
(* Pagination and hierarchy loading                                         *)

Min(a, b) == IF a < b THEN a ELSE b

\* What one request of a listing is answered with: a body with a data
\* array, a body without one, or no answer (the get rejects).
DataReply(data) == [kind |-> "data", data |-> data]
MalformedReply == [kind |-> "malformed", data |-> <<>>]
FailedReply == [kind |-> "failed", data |-> <<>>]

\* The answer to request `page`; a source asked beyond what it was set up
\* with has nothing more to list.
replyAt(replies, page) ==
    IF page \in DOMAIN replies THEN replies[page] ELSE DataReply(<<>>)

\* A loop that goes on until a page comes back empty.
endsLoopOnEmpty(r) == r.kind # "data" \/ Len(r.data) = 0

\* A loop that a failed request does not end: it goes on with the next page.
endsLoopOnShortPage(r) == r.kind = "data" /\ Len(r.data) < PageSize

\* The three breaks of the loop of paginateBookStack: an unexpected body,
\* fewer than pageSize items, a caught error.
endsLoop(r) == r.kind # "data" \/ Len(r.data) < PageSize

\* The loop of paginateBookStack from request `page` on, against a source
\* that answers request k with replies[k].  log: the requests issued.
RECURSIVE paginateWith(_, _, _, _)
paginateWith(replies, page, results, log) ==
    LET r == replyAt(replies, page)
        log2 == Append(log, [page |-> page, count |-> PageSize])
        results2 == results \o r.data
    IN  IF endsLoop(r) THEN [results |-> results2, log |-> log2]
        ELSE paginateWith(replies, page + 1, results2, log2)

\* The answers of a source that holds `items`: request k gets the k-th
\* slice of at most pageSize items; request failAt (0: none) fails.
SourceReplies(items, failAt) ==
    [k \in 1..((Len(items) \div PageSize) + 1) |->
        IF k = failAt THEN FailedReply
        ELSE LET lo == (k - 1) * PageSize + 1
                 hi == Min(k * PageSize, Len(items))
             IN  DataReply(IF lo > Len(items) THEN <<>>
                           ELSE SubSeq(items, lo, hi))]

\* The loop of paginateBookStack from request `page` on, against such a
\* source.
paginateFrom(items, page, results, failAt) ==
    LET r == paginateWith(SourceReplies(items, failAt), page, results, <<>>)
    IN  [results |-> r.results, requests |-> page + Len(r.log) - 1]

\* A listing that stops after its first request.
paginateOnePage(items, failAt) ==
    [results |-> IF failAt = 1 THEN <<>>
                 ELSE SubSeq(items, 1, Min(PageSize, Len(items))),
     requests |-> 1]

paginateBookStack(items, failAt) == paginateFrom(items, 1, <<>>, failAt)

\* One call of paginateBookStack as the process saw it: the size of the
\* collection, the request that failed (0: none), the requests made.
listing(items, failAt) ==
    [size |-> Len(items), failAt |-> failAt,
     requests |-> paginateBookStack(items, failAt).requests]

\* Number of requests a listing of n items takes when none fails.
Requests(items) == (Len(items) \div PageSize) + 1

\* hierarchy.users is a Set: insertion order, no duplicates.
addUser(users, u) ==
    IF \E i \in 1..Len(users) : users[i] = u THEN users ELSE Append(users, u)

enrichedPage(page, pageDetail, shelves, books, chapters) ==
    [id |-> page.id,
     name |-> page.name,
     slug |-> page.slug,
     markdown |-> pageDetail.markdown,
     draft |-> page.draft,
     book_id |-> page.book_id,
     shelf_id |-> page.shelf_id,
     chapter_id |-> page.chapter_id,
     created_by |-> pageDetail.created_by,
     updated_by |-> pageDetail.updated_by,
     bookSlug |-> LET s == findSlug(books, page.book_id)
                  IN  IF s # <<>> THEN s ELSE Uncategorized,
     shelfSlug |-> findSlug(shelves, page.shelf_id),
     chapterSlug |-> findSlug(chapters, page.chapter_id)]

\* An enrichment loop that skips no page.
skipsNoPage(page, includeDrafts) == FALSE

\* if (!this.config.sync.includeDrafts && page.draft) continue;
skipsPage(page, includeDrafts) == ~includeDrafts /\ page.draft

\* The enrichment loop of fetchBookStackHierarchy over the listed pages;
\* noDetail: the ids of the pages whose detail request fails.
RECURSIVE enrichPages(_, _, _, _, _, _, _)
enrichPages(pages, h, shelves, books, chapters, includeDrafts, noDetail) ==
    IF pages = <<>> THEN h
    ELSE LET page == Head(pages)
             rest == Tail(pages)
         IN  IF skipsPage(page, includeDrafts)
             THEN enrichPages(rest, h, shelves, books, chapters,
                              includeDrafts, noDetail)
             ELSE IF page.id \in noDetail
             THEN enrichPages(rest, h, shelves, books, chapters,
                              includeDrafts, noDetail)
             ELSE LET e == enrichedPage(page, SrcDetail(page.id), shelves,
                                        books, chapters)
                      h2 == [h EXCEPT
                               !.pages = Append(@, e),
                               !.users = addUser(addUser(@, e.created_by),
                                                 e.updated_by)]
                  IN  enrichPages(rest, h2, shelves, books, chapters,
                                  includeDrafts, noDetail)

\* The ids of the listed pages whose detail is requested.
detailRequested(pages, includeDrafts) ==
    {pages[i].id : i \in {j \in 1..Len(pages) :
                                   ~skipsPage(pages[j], includeDrafts)}}

fetchBookStackHierarchy(failShelves, failBooks, failChapters, failPages, noDetail, includeDrafts) ==
    LET shelves == paginateBookStack(SrcShelves, failShelves).results
        books == paginateBookStack(SrcBooks, failBooks).results
        chapters == paginateBookStack(SrcChapters, failChapters).results
        pages == paginateBookStack(SrcPages, failPages).results
        h0 == [shelves |-> shelves, books |-> books, chapters |-> chapters,
               pages |-> <<>>, users |-> <<>>]
    IN  enrichPages(pages, h0, shelves, books, chapters, includeDrafts,
                    noDetail)

----------------------------------------------------------------------------
(* User mapping                                                             *)

\* this.wikiJSUsers is null until loadWikiJSUsers has run.
NoUsers == [loaded |-> FALSE, list |-> <<>>]

\* getWikiJSUserByEmail: the id of the first user with that email, 0 when
\* there is none.  On a null list the code raises a TypeError (see mapUser).
getWikiJSUserByEmail(users, email) ==
    IF \E i \in 1..Len(users.list) : users.list[i].email = email
    THEN users.list[CHOOSE i \in 1..Len(users.list) :
                       /\ users.list[i].email = email
                       /\ \A j \in 1..(i-1) : users.list[j].email # email].id
    ELSE 0

\* getDefaultUserId: [threw, ret, state].
getDefaultUserId(st, users) ==
    IF st.defaultUserId # 0
    THEN [threw |-> FALSE, ret |-> st.defaultUserId, state |-> st]
    ELSE IF ~users.loaded
    THEN [threw |-> TRUE, ret |-> 0, state |-> st]
    ELSE LET d == getWikiJSUserByEmail(users, DefaultUserEmail)
         IN  IF d = 0
             THEN [threw |-> TRUE, ret |-> 0, state |-> st]
             ELSE [threw |-> FALSE, ret |-> d,
                   state |-> [st EXCEPT !.defaultUserId = d]]

\* mapUser: [threw, ret, state, errs, fetched].  noUser: the ids of the users
\* whose GET /users/{id} fails; errs: the increase of userMappingErrors;
\* fetched: the ids requested from the source.
mapUser(st, users, bookstackUserId, noUser) ==
    IF bookstackUserId \in DOMAIN st.userMap
    THEN [threw |-> FALSE, ret |-> st.userMap[bookstackUserId], state |-> st,
          errs |-> 0, fetched |-> {}]
    ELSE LET caught == \* the catch block
                 LET d == getDefaultUserId(st, users)
                 IN  [threw |-> d.threw, ret |-> d.ret, state |-> d.state,
                      errs |-> 1, fetched |-> {bookstackUserId}]
         IN  IF bookstackUserId \in noUser \/ ~users.loaded THEN caught
             ELSE LET w == getWikiJSUserByEmail(users,
                                                SrcUserEmail(bookstackUserId))
                  IN  IF w # 0
                      THEN [threw |-> FALSE, ret |-> w,
                            state |-> [st EXCEPT !.userMap =
                                         (bookstackUserId :> w) @@ @],
                            errs |-> 0, fetched |-> {bookstackUserId}]
                      ELSE LET d == getDefaultUserId(st, users)
                           IN  IF d.threw THEN caught
                               ELSE [threw |-> FALSE, ret |-> d.ret,
                                     state |-> [d.state EXCEPT !.userMap =
                                         (bookstackUserId :> d.ret) @@ @],
                                     errs |-> 0,
                                     fetched |-> {bookstackUserId}]

\* mapAllUsers' loop: [threw, state, errs, fetched].
RECURSIVE mapUsersFrom(_, _, _, _, _, _)
mapUsersFrom(ids, st, users, noUser, errs, fetched) ==
    IF ids = <<>>
    THEN [threw |-> FALSE, state |-> st, errs |-> errs, fetched |-> fetched]
    ELSE LET m == mapUser(st, users, Head(ids), noUser)
         IN  IF m.threw
             THEN [threw |-> TRUE, state |-> m.state, errs |-> errs + m.errs,
                   fetched |-> fetched \cup m.fetched]
             ELSE mapUsersFrom(Tail(ids), m.state, users, noUser,
                               errs + m.errs, fetched \cup m.fetched)

mapAllUsers(st, users, ids, noUser, skipUserMapping) ==
    IF skipUserMapping
    THEN [threw |-> FALSE, state |-> st, errs |-> 0, fetched |-> {}]
    ELSE mapUsersFrom(ids, st, users, noUser, 0, {})

----------------------------------------------------------------------------
(* Assets and content                                                       *)

EmptyMap == [x \in {} |-> 0]

\* null, as syncAsset returns it after a failure.
NullLocator == <<>>
\* '/placeholder.jpg'
Placeholder == <<"/","p","l","a","c","e","h","o","l","d","e","r",".","j","p","g">>
\* What the target's upload endpoint answers for a file of that name.
Locator(name) == <<"/", "u", "/">> \o name

\* A syncAsset that never consults the map.
assetNeverCached(assetMap, assetId) == FALSE

\* if (this.state.assetMap[assetId])
assetCached(assetMap, assetId) == assetId \in DOMAIN assetMap

\* A syncAsset that forgets to store the mapping.
recordNothing(assetMap, assetId, wikijsPath) == assetMap

\* this.state.assetMap[assetId] = wikijsPath
recordAsset(assetMap, assetId, wikijsPath) == (assetId :> wikijsPath) @@ assetMap

\* A run that ignores the dry-run switch.
mutationsAlways(cfg) == TRUE

\* if (!this.config.sync.dryRun), the guard of every mutating call
mutationsEnabled(cfg) == ~cfg.dryRun

Download(type, id) == [to |-> "source", op |-> "download", type |-> type, id |-> id]
Upload(name) == [to |-> "target", op |-> "upload", name |-> name]

\* The catch block of syncAsset without its counter.
syncAssetCatchUncounted(st, sts, calls, written) ==
    [state |-> st, stats |-> sts, ret |-> NullLocator, calls |-> calls,
     outcome |-> "failed", tempFile |-> written]

\* The catch block of syncAsset: this.stats.errors++; return null.  It
\* does nothing about the local file: written tells whether the try block
\* had written it when it raised.
syncAssetCatch(st, sts, calls, written) ==
    [state |-> st, stats |-> [sts EXCEPT !.errors = @ + 1],
     ret |-> NullLocator, calls |-> calls, outcome |-> "failed",
     tempFile |-> written]

\* syncAsset: [state, stats, ret, calls, outcome, tempFile].  tempFile: the
\* file at localPath exists when the call returns.  A failed download is a
\* rejected get: nothing has been written then.
syncAsset(type, asset, st, sts, cfg, downloadOk, uploadOk) ==
    IF assetCached(st.assetMap, asset.id)
    THEN [state |-> st, stats |-> sts, ret |-> st.assetMap[asset.id],
          calls |-> <<>>, outcome |-> "cached", tempFile |-> FALSE]
    ELSE IF ~downloadOk
    THEN syncAssetCatch(st, sts, <<Download(type, asset.id)>>, FALSE)
    ELSE IF mutationsEnabled(cfg) /\ ~uploadOk
    THEN syncAssetCatch(st, sts,
                        <<Download(type, asset.id), Upload(asset.name)>>,
                        TRUE)
    ELSE LET wikijsPath == IF mutationsEnabled(cfg) THEN Locator(asset.name)
                           ELSE Placeholder
         IN  [state |-> [st EXCEPT !.assetMap =
                                      recordAsset(@, asset.id, wikijsPath)],
              stats |-> [sts EXCEPT !.assetsUploaded = @ + 1],
              ret |-> wikijsPath,
              calls |-> IF mutationsEnabled(cfg)
                        THEN <<Download(type, asset.id), Upload(asset.name)>>
                        ELSE <<Download(type, asset.id)>>,
              outcome |-> IF mutationsEnabled(cfg) THEN "uploaded" ELSE "dry",
              tempFile |-> FALSE]

\* String.prototype.includes
includes(hay, needle) ==
    \E i \in 0..(Len(hay) - Len(needle)) :
        SubSeq(hay, i + 1, i + Len(needle)) = needle

\* Object.entries(assetMap).find(...): integer-like keys are enumerated in
\* ascending order, so the first match is the one with the least id.
imageEntry(assetMap, filename) ==
    LET hits == {id \in DOMAIN assetMap : includes(assetMap[id], filename)}
    IN  IF hits = {} THEN 0
        ELSE CHOOSE id \in hits : \A other \in hits : id <= other

\* A transformation that points a reference without an entry to the
\* placeholder instead of leaving it.
transformTokenToPlaceholder(tok, assetMap) ==
    IF tok.k = "image"
    THEN LET e == imageEntry(assetMap, tok.file)
         IN  ImageTo(tok.alt, IF e # 0 THEN assetMap[e] ELSE Placeholder)
    ELSE IF tok.k = "attachment"
    THEN LinkTo(tok.name, IF tok.id \in DOMAIN assetMap
                          THEN assetMap[tok.id] ELSE Placeholder)
    ELSE tok

\* One match of a regular expression of transformContent and its
\* replacement; text outside the matches is kept.
transformToken(tok, assetMap) ==
    IF tok.k = "image"
    THEN LET e == imageEntry(assetMap, tok.file)
         IN  IF e # 0 THEN ImageTo(tok.alt, assetMap[e]) ELSE tok
    ELSE IF tok.k = "attachment"
    THEN IF tok.id \in DOMAIN assetMap
         THEN LinkTo(tok.name, assetMap[tok.id]) ELSE tok
    ELSE tok

\* transformContent; the empty content '' gives ' '.
transformContent(content, assetMap) ==
    IF content = <<>> THEN <<Text(" ")>>
    ELSE [i \in 1..Len(content) |-> transformToken(content[i], assetMap)]

----------------------------------------------------------------------------
(* Pages                                                                    *)

\* getPagePath(p).split('/').length, the sort key of syncPages
depthOf(page, separator) == splitLength(getPagePath(page, separator), "/")

\* Array.prototype.sort with the comparator aDepth - bDepth; the sort is
\* stable, so pages of equal depth keep their order.
insertPage(sorted, page, separator) ==
    LET d == depthOf(page, separator)
        k == Cardinality({i \in 1..Len(sorted) :
                             depthOf(sorted[i], separator) <= d})
    IN  SubSeq(sorted, 1, k) \o <<page>> \o SubSeq(sorted, k + 1, Len(sorted))

RECURSIVE sortPages(_, _)
sortPages(pages, separator) ==
    IF pages = <<>> THEN <<>>
    ELSE insertPage(sortPages(SubSeq(pages, 1, Len(pages) - 1), separator),
                    pages[Len(pages)], separator)

\* A lookup that finds the page even when its query has failed.
findDespiteFailure(wk, path, findOk) ==
    IF path \in DOMAIN wk THEN wk[path].id ELSE 0

\* A lookup that never finds a page.
findNothing(wk, path, findOk) == 0

\* findWikiJSPage: the id of the page at that path, 0 for null.  A failed
\* query (findOk false) gives null as well.
findWikiJSPage(wk, path, findOk) ==
    IF findOk /\ path \in DOMAIN wk THEN wk[path].id ELSE 0

\* An update that sends the page's raw content.
updateCallRaw(existingId, page, transformedMarkdown, updatedBy) ==
    [op |-> "update", id |-> existingId, title |-> page.name,
     description |-> page.markdown, isPublished |-> ~page.draft,
     authorId |-> updatedBy]

\* The arguments of updateWikiJSPage in syncPage.
updateCall(existingId, page, transformedMarkdown, updatedBy) ==
    [op |-> "update", id |-> existingId, title |-> page.name,
     description |-> transformedMarkdown, isPublished |-> ~page.draft,
     authorId |-> updatedBy]

\* The arguments of createWikiJSPage in syncPage.
createCall(pagePath, page, transformedMarkdown, createdBy) ==
    [op |-> "create", path |-> pagePath, title |-> page.name,
     description |-> transformedMarkdown, isPublished |-> ~page.draft,
     authorId |-> createdBy, creatorId |-> createdBy]

\* The id the target gives the next page it creates.
NewPageId(wk) == 101 + Cardinality(DOMAIN wk)

\* What a create or update request can be answered with: a result with
\* responseResult.succeeded true or false, a body with GraphQL errors, or
\* no answer at all (the post rejects).
MutationReplies == {"succeeded", "notSucceeded", "errors", "transport"}

\* A client that looks at the transport and at the GraphQL errors only.
mutationThrowsUnlessAnswered(reply) == reply \in {"errors", "transport"}

\* createWikiJSPage, updateWikiJSPage: the replies on which they throw.
mutationThrows(reply) == reply # "succeeded"

\* The catch block of syncPage without its counter.
syncPageCatchUncounted(sts) == sts

\* The catch block of syncPage: this.stats.errors++.
syncPageCatch(sts) == [sts EXCEPT !.errors = @ + 1]

\* A create branch that counts its page as an updated one.
countPageCreatedAsUpdated(sts) == [sts EXCEPT !.pagesUpdated = @ + 1]

\* The last statement of the create branch: this.stats.pagesCreated++.
countPageCreated(sts) == [sts EXCEPT !.pagesCreated = @ + 1]

\* syncPage: [state, stats, wiki, calls, path, found, findIssued, outcome,
\* fetched].  calls: the mutating calls sent to the target; found: what
\* findWikiJSPage returned; fetched: the users requested from the source.
\* The target rejects a create for a path it already holds.
syncPage(page, st, sts, wk, cfg, users, noUser, findOk, mutationOk) ==
    LET pagePath == getPagePath(page, cfg.hierarchySeparator)
        transformedMarkdown == transformContent(page.markdown, st.assetMap)
        c == mapUser(st, users, page.created_by, noUser)
        u == IF c.threw THEN c
             ELSE mapUser(c.state, users, page.updated_by, noUser)
        st2 == u.state
        sts2 == [sts EXCEPT !.userMappingErrors =
                     @ + c.errs + (IF c.threw THEN 0 ELSE u.errs)]
        fetched == c.fetched \cup (IF c.threw THEN {} ELSE u.fetched)
        existingPage == findWikiJSPage(wk, pagePath, findOk)
        result(st3, sts3, wk3, calls, issued, outcome) ==
            [state |-> st3, stats |-> sts3, wiki |-> wk3, calls |-> calls,
             path |-> pagePath, found |-> IF issued THEN existingPage ELSE 0,
             findIssued |-> issued, outcome |-> outcome, fetched |-> fetched,
             mapThrew |-> c.threw \/ u.threw]
        caught(calls, issued) ==
            result(st2, syncPageCatch(sts2), wk, calls, issued, "error")
    IN  IF c.threw \/ u.threw THEN caught(<<>>, FALSE)
        ELSE IF existingPage # 0
        THEN IF ~mutationsEnabled(cfg)
             THEN result(st2, [sts2 EXCEPT !.pagesUpdated = @ + 1], wk, <<>>,
                         TRUE, "updated")
             ELSE LET call == updateCall(existingPage, page,
                                         transformedMarkdown, u.ret)
                  IN  IF ~mutationOk THEN caught(<<call>>, TRUE)
                      ELSE result(st2,
                                  [sts2 EXCEPT !.pagesUpdated = @ + 1],
                                  [wk EXCEPT ![pagePath] =
                                      [@ EXCEPT !.title = call.title,
                                                !.description = call.description,
                                                !.isPublished = call.isPublished,
                                                !.authorId = call.authorId,
                                                !.src = page.id]],
                                  <<call>>, TRUE, "updated")
        ELSE IF ~mutationsEnabled(cfg)
             THEN result(st2, countPageCreated(sts2), wk, <<>>,
                         TRUE, "created")
             ELSE LET call == createCall(pagePath, page, transformedMarkdown,
                                         c.ret)
                      newPage == [id |-> NewPageId(wk), title |-> call.title,
                                  description |-> call.description,
                                  isPublished |-> call.isPublished,
                                  authorId |-> call.authorId,
                                  creatorId |-> call.creatorId,
                                  src |-> page.id]
                  IN  IF ~mutationOk \/ pagePath \in DOMAIN wk
                      THEN caught(<<call>>, TRUE)
                      ELSE result([st2 EXCEPT !.pageMap =
                                       (page.id :> newPage.id) @@ @],
                                  countPageCreated(sts2),
                                  (pagePath :> newPage) @@ wk,
                                  <<call>>, TRUE, "created")

----------------------------------------------------------------------------
(* The process: main() and BookStackToWikiJSSync.run()                      *)

\* this.state and this.stats as the constructor leaves them.
FreshState == [lastSync |-> 0, pageMap |-> EmptyMap, assetMap |-> EmptyMap,
               userMap |-> EmptyMap, defaultUserId |-> 0]
ZeroStats == [pagesCreated |-> 0, pagesUpdated |-> 0, assetsUploaded |-> 0,
              userMappingErrors |-> 0, errors |-> 0]
EmptyHierarchy == [shelves |-> <<>>, books |-> <<>>, chapters |-> <<>>,
                   pages |-> <<>>, users |-> <<>>]
ZeroNet == [downloads |-> 0, uploads |-> 0, finds |-> 0, findsFailed |-> 0,
            creates |-> 0, updates |-> 0, transforms |-> 0, resolves |-> 0,
            pageErrors |-> 0, assetsListed |-> 0, assetCalls |-> 0,
            assetErrors |-> 0, stateReads |-> 0, stateWrites |-> 0,
            statsPrinted |-> 0,
            diskAtStart |-> [exists |-> FALSE, content |-> FreshState]]

AssetKeys ==
    {<<"image", SrcImages[i].id>> : i \in 1..Len(SrcImages)}
    \cup {<<"attachment", SrcAttachments[i].id>> : i \in 1..Len(SrcAttachments)}
NoHistory == [calls |-> 0, downloads |-> 0, uploads |-> 0, first |-> "none",
              firstRet |-> NullLocator, lastRet |-> NullLocator,
              lastCalls |-> 0]
NoPrev == [complete |-> FALSE, dryRun |-> FALSE, pageMap |-> EmptyMap,
           pages |-> <<>>, pageErrors |-> 0]
PtIdle == [phase |-> "off"]
TcIdle == [phase |-> "off"]
PgIdle == [phase |-> "off"]
CpIdle == [phase |-> "off"]
SyIdle == [pc |-> "off"]

B(x) == IF x THEN 1 ELSE 0

\* One entry of the resolution log.
Resolution(page, separator) ==
    [slugs |-> <<page.shelfSlug, page.bookSlug, page.chapterSlug, page.slug>>,
     separator |-> separator, path |-> getPagePath(page, separator)]

MainInit ==
    /\ pc = "idle"
    /\ runs = 0
    /\ faults = 0
    /\ config \in [dryRun : {FALSE}, skipUserMapping : {FALSE},
                   includeDrafts : BOOLEAN, hierarchySeparator : Separators]
    /\ disk = [exists |-> FALSE, content |-> FreshState]
    /\ state = FreshState
    /\ stats = ZeroStats
    /\ hierarchy = EmptyHierarchy
    /\ wikiJSUsers = NoUsers
    /\ work = <<>>
    /\ wiki = EmptyMap
    /\ net = ZeroNet
    /\ last = [op |-> "none"]
    /\ hist = [k \in AssetKeys |-> NoHistory]
    /\ prev = NoPrev
    /\ resolved = {}
    /\ exitCode = -1

Init ==
    /\ MainInit
    /\ pt = PtIdle
    /\ sy = SyIdle
    /\ tc = TcIdle
    /\ pg = PgIdle
    /\ cp = CpIdle

\* A run() that goes from the user mapping straight to the pages.
phaseAfterSkippingAssets(phase) ==
    CASE phase = "idle" -> "fetch"
      [] phase = "fetch" -> "users"
      [] phase = "users" -> "attachments"
      [] phase = "listImages" -> "images"
      [] phase = "images" -> "attachments"
      [] phase = "attachments" -> "pages"
      [] phase = "pages" -> "stats"
      [] phase = "stats" -> "idle"

\* The sequence of run(): initialize (loadState), fetchBookStackHierarchy,
\* loadWikiJSUsers and mapAllUsers, syncAssets (its two listings and
\* loops), syncPages, saveState, printStats, return.
phaseAfter(phase) ==
    CASE phase = "idle" -> "fetch"
      [] phase = "fetch" -> "users"
      [] phase = "users" -> "listImages"
      [] phase = "listImages" -> "images"
      [] phase = "images" -> "attachments"
      [] phase = "attachments" -> "pages"
      [] phase = "pages" -> "stats"
      [] phase = "stats" -> "idle"

\* loadState that ignores the state file.
loadStateFresh(d) == FreshState

\* loadState: the parsed state file when there is one, else the state of
\* the constructor.
loadState(d) == IF d.exists THEN d.content ELSE FreshState

\* main() builds the object and run() calls initialize(): loadState reads
\* the state file when there is one.  --dry-run and --skip-users are given
\* per invocation.
StartRun ==
    /\ pc = "idle"
    /\ runs < MaxRuns
    /\ \E dryRun \in BOOLEAN, skipUserMapping \in BOOLEAN :
         config' = [config EXCEPT !.dryRun = dryRun,
                                  !.skipUserMapping = skipUserMapping]
    /\ runs' = runs + 1
    /\ state' = loadState(disk)
    /\ stats' = ZeroStats
    /\ hierarchy' = EmptyHierarchy
    /\ wikiJSUsers' = NoUsers
    /\ work' = <<>>
    /\ net' = [ZeroNet EXCEPT !.stateReads = 1, !.diskAtStart = disk]
    /\ last' = [op |-> "loadState"]
    /\ exitCode' = -1
    /\ pc' = phaseAfter(pc)
    /\ UNCHANGED <<faults, disk, wiki, hist, prev, resolved, pt, sy, tc, pg, cp>>

\* The catch block of run() and of main(): the in-memory state is dropped,
\* the state file is left as it is, the process exits with status 1.  The
\* state lifetime of every asset the file does not know ends here.
Fatal(st, sts) ==
    /\ state' = st
    /\ stats' = [sts EXCEPT !.errors = @ + 1]
    /\ pc' = "idle"
    /\ exitCode' = 1
    /\ work' = <<>>
    /\ prev' = [complete |-> FALSE, dryRun |-> config.dryRun,
                pageMap |-> st.pageMap, pages |-> hierarchy.pages,
                pageErrors |-> net.pageErrors]
    /\ hist' = [k \in AssetKeys |->
                  IF disk.exists /\ k[2] \in DOMAIN disk.content.assetMap
                  THEN hist[k] ELSE NoHistory]

FetchHierarchy ==
    /\ pc = "fetch"
    /\ \E failShelves \in 0..Requests(SrcShelves),
          failBooks \in 0..Requests(SrcBooks),
          failChapters \in 0..Requests(SrcChapters),
          failPages \in 0..Requests(SrcPages) :
         \E listed \in {paginateBookStack(SrcPages, failPages).results} :
             \E noDetail \in SUBSET detailRequested(listed, config.includeDrafts) :
               LET cost == B(failShelves # 0) + B(failBooks # 0)
                           + B(failChapters # 0) + B(failPages # 0)
                           + Cardinality(noDetail)
               IN  /\ faults + cost <= MaxFaults
                   /\ faults' = faults + cost
                   /\ hierarchy' = fetchBookStackHierarchy(
                                      failShelves, failBooks, failChapters,
                                      failPages, noDetail,
                                      config.includeDrafts)
                   /\ last' = [op |-> "fetchBookStackHierarchy",
                               requested |-> detailRequested(
                                                listed, config.includeDrafts),
                               noDetail |-> noDetail,
                               listingFailed |-> cost > Cardinality(noDetail),
                               listings |->
                                   {listing(SrcShelves, failShelves),
                                    listing(SrcBooks, failBooks),
                                    listing(SrcChapters, failChapters),
                                    listing(SrcPages, failPages)}]
    /\ pc' = phaseAfter(pc)
    /\ UNCHANGED <<runs, config, disk, state, stats, wikiJSUsers, work, wiki,
                   net, hist, prev, resolved, exitCode, pt, sy, tc, pg, cp>>

\* loadWikiJSUsers (unless skipUserMapping) and mapAllUsers.  A failed user
\* query leaves the empty list.
MapUsers ==
    /\ pc = "users"
    /\ \E usersOk \in BOOLEAN, noUser \in SUBSET {1, 2} :
         /\ faults + B(~usersOk) + Cardinality(noUser) <= MaxFaults
         /\ ~usersOk => ~config.skipUserMapping
         /\ \E users \in {IF config.skipUserMapping THEN NoUsers
                         ELSE [loaded |-> TRUE,
                               list |-> IF usersOk THEN WikiUsers ELSE <<>>]} :
            \E m \in {mapAllUsers(state, users, hierarchy.users, noUser,
                                 config.skipUserMapping)} :
             /\ noUser \subseteq m.fetched
             /\ faults' = faults + B(~usersOk) + Cardinality(noUser)
             /\ wikiJSUsers' = users
             /\ last' = [op |-> "mapAllUsers", threw |-> m.threw]
             /\ IF m.threw
                THEN Fatal(m.state,
                           [stats EXCEPT !.userMappingErrors = @ + m.errs])
                ELSE /\ state' = m.state
                     /\ stats' = [stats EXCEPT !.userMappingErrors = @ + m.errs]
                     /\ pc' = phaseAfter(pc)
                     /\ UNCHANGED <<work, prev, hist, exitCode>>
    /\ UNCHANGED <<runs, config, disk, hierarchy, wiki, net, resolved, pt, sy, tc, pg, cp>>

Tagged(type, assets) ==
    [i \in 1..Len(assets) |-> [type |-> type, id |-> assets[i].id,
                               name |-> assets[i].name]]

\* syncAssets up to its first loop: the images are listed.
ListImages ==
    /\ pc = "listImages"
    /\ \E failAt \in 0..Requests(SrcImages) :
         /\ faults + B(failAt # 0) <= MaxFaults
         /\ faults' = faults + B(failAt # 0)
         /\ work' = Tagged("image", paginateBookStack(SrcImages, failAt).results)
         /\ last' = [op |-> "listImages",
                     listings |-> {listing(SrcImages, failAt)}]
    /\ net' = [net EXCEPT !.assetsListed = @ + Len(work')]
    /\ pc' = phaseAfter(pc)
    /\ UNCHANGED <<runs, config, disk, state, stats, hierarchy, wikiJSUsers,
                   wiki, hist, prev, resolved, exitCode, pt, sy, tc, pg, cp>>

\* syncAssets between its loops: the attachments are listed.
ListAttachments ==
    /\ pc = "images"
    /\ work = <<>>
    /\ \E failAt \in 0..Requests(SrcAttachments) :
         /\ faults + B(failAt # 0) <= MaxFaults
         /\ faults' = faults + B(failAt # 0)
         /\ work' = Tagged("attachment",
                           paginateBookStack(SrcAttachments, failAt).results)
         /\ last' = [op |-> "listAttachments",
                     listings |-> {listing(SrcAttachments, failAt)}]
    /\ net' = [net EXCEPT !.assetsListed = @ + Len(work')]
    /\ pc' = phaseAfter(pc)
    /\ UNCHANGED <<runs, config, disk, state, stats, hierarchy, wikiJSUsers,
                   wiki, hist, prev, resolved, exitCode, pt, sy, tc, pg, cp>>

\* One call of syncAsset from a loop of syncAssets.
SyncAsset ==
    /\ pc \in {"images", "attachments"}
    /\ work # <<>>
    /\ \E downloadOk \in BOOLEAN, uploadOk \in BOOLEAN :
         /\ faults + B(~downloadOk) + B(~uploadOk) <= MaxFaults
         /\ \E asset \in {Head(work)} :
            \E r \in {syncAsset(asset.type, asset, state, stats, config,
                               downloadOk, uploadOk)} :
            LET key == <<asset.type, asset.id>>
                nd == Cardinality({i \in 1..Len(r.calls) :
                                      r.calls[i].op = "download"})
                nu == Cardinality({i \in 1..Len(r.calls) :
                                      r.calls[i].op = "upload"})
            IN
             /\ ~downloadOk => nd > 0
             /\ ~uploadOk => (downloadOk /\ nu > 0)
             /\ faults' = faults + B(~downloadOk) + B(~uploadOk)
             /\ state' = r.state
             /\ stats' = r.stats
             /\ net' = [net EXCEPT !.downloads = @ + nd, !.uploads = @ + nu,
                                   !.assetCalls = @ + 1,
                                   !.assetErrors = @ + B(r.outcome = "failed")]
             /\ last' = [op |-> "syncAsset", type |-> asset.type,
                         id |-> asset.id, ret |-> r.ret, calls |-> r.calls,
                         outcome |-> r.outcome, downloadOk |-> downloadOk,
                         uploadOk |-> uploadOk, tempFile |-> r.tempFile]
             /\ hist' = [hist EXCEPT ![key] =
                           [calls |-> @.calls + 1,
                            downloads |-> @.downloads + nd,
                            uploads |-> @.uploads + nu,
                            first |-> IF @.calls = 0 THEN r.outcome ELSE @.first,
                            firstRet |-> IF @.calls = 0 THEN r.ret ELSE @.firstRet,
                            lastRet |-> r.ret,
                            lastCalls |-> Len(r.calls)]]
    /\ work' = Tail(work)
    /\ UNCHANGED <<pc, runs, config, disk, hierarchy, wikiJSUsers, wiki, prev,
                   resolved, exitCode, pt, sy, tc, pg, cp>>

\* syncPages up to its loop: hierarchy.pages is sorted in place.
SortPages ==
    /\ pc = "attachments"
    /\ work = <<>>
    /\ \E sortedPages \in {sortPages(hierarchy.pages,
                                      config.hierarchySeparator)} :
           /\ hierarchy' = [hierarchy EXCEPT !.pages = sortedPages]
           /\ work' = sortedPages
           /\ resolved' = resolved \cup
                 {Resolution(hierarchy.pages[i], config.hierarchySeparator) :
                     i \in 1..Len(hierarchy.pages)}
    /\ pc' = phaseAfter(pc)
    /\ last' = [op |-> "sortPages"]
    /\ UNCHANGED <<runs, faults, config, disk, state, stats, wikiJSUsers, wiki,
                   net, hist, prev, exitCode, pt, sy, tc, pg, cp>>

\* One call of syncPage from the loop of syncPages.
SyncPage ==
    /\ pc = "pages"
    /\ work # <<>>
    /\ \E noUser \in SUBSET {1, 2}, findOk \in BOOLEAN,
          reply \in MutationReplies :
         /\ faults + Cardinality(noUser) + B(~findOk) + B(reply # "succeeded")
               <= MaxFaults
         /\ \E page \in {Head(work)}, mutationOk \in {~mutationThrows(reply)} :
            \E r \in {syncPage(page, state, stats, wiki, config, wikiJSUsers,
                              noUser, findOk, mutationOk)} :
             /\ noUser \subseteq r.fetched
             /\ ~findOk => r.findIssued
             /\ reply # "succeeded" => r.calls # <<>>
             /\ faults' = faults + Cardinality(noUser) + B(~findOk)
                                 + B(reply # "succeeded")
             /\ state' = r.state
             /\ stats' = r.stats
             /\ wiki' = r.wiki
             /\ net' = [net EXCEPT
                          !.finds = @ + B(r.findIssued),
                          !.findsFailed = @ + B(~findOk),
                          !.creates = @ + Cardinality({i \in 1..Len(r.calls) :
                                                 r.calls[i].op = "create"}),
                          !.updates = @ + Cardinality({i \in 1..Len(r.calls) :
                                                 r.calls[i].op = "update"}),
                          !.transforms = @ + 1,
                          !.resolves = @ + 1,
                          !.pageErrors = @ + B(r.outcome = "error")]
             /\ last' = [op |-> "syncPage", id |-> page.id, path |-> r.path,
                         found |-> r.found, findIssued |-> r.findIssued,
                         calls |-> r.calls, outcome |-> r.outcome,
                         mapThrew |-> r.mapThrew, findOk |-> findOk,
                         mutationOk |-> mutationOk, reply |-> reply]
             /\ resolved' = resolved \cup
                              {Resolution(page, config.hierarchySeparator)}
    /\ work' = Tail(work)
    /\ UNCHANGED <<pc, runs, config, disk, hierarchy, wikiJSUsers, hist, prev,
                   exitCode, pt, sy, tc, pg, cp>>

\* saveState: lastSync is set and the whole state is written.  A failed
\* write is fatal.
SaveState ==
    /\ pc = "pages"
    /\ work = <<>>
    /\ last' = [op |-> "saveState"]
    /\ \E writeOk \in BOOLEAN :
         /\ faults + B(~writeOk) <= MaxFaults
         /\ faults' = faults + B(~writeOk)
         /\ IF writeOk
            THEN /\ state' = [state EXCEPT !.lastSync = runs]
                 /\ disk' = [exists |-> TRUE, content |-> state']
                 /\ pc' = phaseAfter(pc)
                 /\ prev' = [complete |-> TRUE, dryRun |-> config.dryRun,
                             pageMap |-> state.pageMap,
                             pages |-> hierarchy.pages,
                             pageErrors |-> net.pageErrors]
                 /\ UNCHANGED <<stats, work, hist, exitCode>>
            ELSE /\ Fatal([state EXCEPT !.lastSync = runs], stats)
                 /\ UNCHANGED disk
    /\ net' = [net EXCEPT !.stateWrites = @ + 1]
    /\ UNCHANGED <<runs, config, hierarchy, wikiJSUsers, wiki, resolved,
                   pt, sy, tc, pg, cp>>

\* printStats, after which run() and main() return: exit status 0.
PrintStats ==
    /\ pc = "stats"
    /\ pc' = phaseAfter(pc)
    /\ exitCode' = 0
    /\ last' = [op |-> "printStats"]
    /\ net' = [net EXCEPT !.statsPrinted = @ + 1]
    /\ UNCHANGED <<runs, faults, config, disk, state, stats, hierarchy,
                   wikiJSUsers, work, wiki, hist, prev, resolved, pt, sy, tc, pg, cp>>

Next ==
    \/ StartRun
    \/ FetchHierarchy
    \/ MapUsers
    \/ ListImages
    \/ ListAttachments
    \/ SyncAsset
    \/ SortPages
    \/ SyncPage
    \/ SaveState
    \/ PrintStats

Spec == Init /\ [][Next]_vars

\* Steps of a running process between its awaited calls.
LightStep ==
    \/ MapUsers
    \/ ListImages
    \/ ListAttachments
    \/ SyncAsset
    \/ SaveState
    \/ PrintStats

\* The states in which fetchBookStackHierarchy, the sort of syncPages and
\* the next call of syncPage are due.  Each of the three is enabled in
\* exactly these states, and no other step of Next leaves them.
AtFetch == pc = "fetch"
AtSort == pc = "attachments" /\ work = <<>>
AtPage == pc = "pages" /\ work # <<>>

\* The process under the assumption that every awaited call returns or
\* fails: weak fairness of every step of a running process, that of
\* FetchHierarchy, SortPages and SyncPage with their enabling conditions
\* written out.  Whether another process is started is up to the user.
FairSpec ==
    /\ Spec
    /\ WF_vars(LightStep)
    /\ []<>~AtFetch \/ []<><<AtFetch>>_vars
    /\ []<>~AtSort \/ []<><<AtSort>>_vars
    /\ []<>~AtPage \/ []<><<AtPage>>_vars

----------------------------------------------------------------------------
(* Path resolution on its own: enrichedPage then getPagePath, on one page   *)
(* with arbitrary ancestors, slugs and separator                            *)

GettingStarted ==
    <<"G","e","t","t","i","n","g"," ","S","t","a","r","t","e","d","!">>
DocsV2 == <<"D","o","c","s","_","v","2">>
DocsPath ==
    <<"d","o","c","s","_","v","2","/",
      "g","e","t","t","i","n","g","-","s","t","a","r","t","e","d","-">>

PtShelfSlugs == { <<"S">> }
PtBookSlugs == { <<"b">>, DocsV2 }
PtChapterSlugs == { <<"c", "!">> }
PtPageSlugs ==
    { <<"p">>, GettingStarted, <<"U+0130">>, <<"A", "-", "_", "9">>,
      <<"x", ".", "y">> }
PtSeparators == Separators \cup { <<".">> }

PtNodes(slugs) == { <<>> } \cup { <<[id |-> 1, slug |-> s]>> : s \in slugs }

PtInputs ==
    [phase : {"input"},
     shelves : PtNodes(PtShelfSlugs),
     books : PtNodes(PtBookSlugs),
     chapters : PtNodes(PtChapterSlugs),
     page : [id : {1}, name : {"One"}, slug : PtPageSlugs, draft : {FALSE},
             shelf_id : {0, 1}, book_id : {0, 1}, chapter_id : {0, 1}],
     separator : PtSeparators,
     enriched : {<<>>},
     path : {<<>>}]

PathInit ==
    /\ MainInit
    /\ config.includeDrafts = FALSE
    /\ config.hierarchySeparator = <<"/">>
    /\ pt \in PtInputs
    /\ sy = SyIdle
    /\ tc = TcIdle
    /\ pg = PgIdle
    /\ cp = CpIdle

\* fetchBookStackHierarchy builds the enriched page.
PtEnrich ==
    /\ pt.phase = "input"
    /\ pt' = [pt EXCEPT !.phase = "enriched",
                        !.enriched = enrichedPage(pt.page, SrcDetail(pt.page.id),
                                        pt.shelves, pt.books, pt.chapters)]
    /\ UNCHANGED <<mainVars, sy, tc, pg, cp>>

\* getPagePath on the enriched page.
PtResolve ==
    /\ pt.phase = "enriched"
    /\ pt' = [pt EXCEPT !.phase = "resolved",
                        !.path = getPagePath(pt.enriched, pt.separator)]
    /\ UNCHANGED <<mainVars, sy, tc, pg, cp>>

PathNext ==
    \/ PtEnrich
    \/ PtResolve

PathSpec == PathInit /\ [][PathNext]_vars

----------------------------------------------------------------------------
(* The Sync class: the second script of wiki_sync.js and part_000           *)

SyVariants == {"wiki_sync", "part_000"}

\* GET /shelves/{id}/books: the ids of the books on a shelf.
SrcShelfBooks(shelfId) == IF shelfId = 1 THEN <<1>> ELSE <<>>

\* The directory run() hands to fs.mkdir.  part_000 reads this.assetsDir,
\* which neither the constructor nor main() assigns: undefined (<<>>).  The
\* second script of wiki_sync.js names ASSETS_DIR, which neither script
\* declares; it is taken to be the assets directory the configuration
\* names, './sync-assets'.
assetsDirOf(variant) ==
    IF variant = "part_000" THEN <<>> ELSE <<"sync-assets">>

\* fs.mkdir(undefined, ...) rejects with ERR_INVALID_ARG_TYPE.
mkdirRejects(dir) == dir = <<>>

SyFreshState == [assets |-> EmptyMap]
SyZeroStats == [pages |-> 0, assets |-> 0, errors |-> 0]
SyZeroNet == [downloads |-> 0, uploads |-> 0, finds |-> 0, creates |-> 0,
              updates |-> 0, processed |-> 0]

SyInitial(variant) ==
    [pc |-> "idle", variant |-> variant, runs |-> 0, faults |-> 0,
     dryRun |-> FALSE, disk |-> [exists |-> FALSE, content |-> SyFreshState],
     state |-> SyFreshState, stats |-> SyZeroStats, userId |-> 0,
     bookToShelf |-> EmptyMap, work |-> <<>>, target |-> {},
     net |-> SyZeroNet, calls |-> <<>>, outcome |-> "none"]

\* getUserId: the default user's id, else the first user's, else 1; 1 when
\* the query fails.
getUserId(users, ok) ==
    IF ~ok THEN 1
    ELSE LET d == getWikiJSUserByEmail([loaded |-> TRUE, list |-> users],
                                       DefaultUserEmail)
         IN  IF d # 0 THEN d
             ELSE IF users # <<>> /\ users[1].id # 0 THEN users[1].id
             ELSE 1

\* buildShelfMapping: book id -> slug of the last listed shelf that holds
\* the book; a shelf whose listing fails is skipped.
buildShelfMapping(shelves, failed) ==
    LET holds(i, b) == /\ shelves[i].id \notin failed
                       /\ \E k \in 1..Len(SrcShelfBooks(shelves[i].id)) :
                             SrcShelfBooks(shelves[i].id)[k] = b
        mapped == {b \in 1..Len(SrcBooks) : \E i \in 1..Len(shelves) : holds(i, b)}
    IN  [b \in mapped |->
            shelves[CHOOSE i \in 1..Len(shelves) :
                       /\ holds(i, b)
                       /\ \A j \in (i+1)..Len(shelves) : ~holds(j, b)].slug]

\* The path run() builds for a page: joined by '/', whatever the settings.
syncPagePath(page, books, chapters, bookToShelf) ==
    LET shelfSlug == IF page.book_id \in DOMAIN bookToShelf
                     THEN bookToShelf[page.book_id] ELSE <<>>
        bookSlug == findSlug(books, page.book_id)
        chapterSlug == findSlug(chapters, page.chapter_id)
        pathParts == (IF shelfSlug # <<>> THEN <<shelfSlug>> ELSE <<>>)
                     \o (IF bookSlug # <<>> THEN <<bookSlug>> ELSE <<>>)
                     \o (IF chapterSlug # <<>> THEN <<chapterSlug>> ELSE <<>>)
                     \o <<page.slug>>
    IN  replaceDisallowed(toLowerCase(join(pathParts, <<"/">>)))

\* The keys of state.assets: `img_${filename}` and `att_${id}`.
assetKey(tok) ==
    IF tok.k = "image" THEN <<"img", tok.file>> ELSE <<"att", tok.id>>

\* The name an asset is stored and uploaded under: the image's file name,
\* the attachment's content-disposition file name.
assetFilename(tok) ==
    IF tok.k = "image" THEN tok.file ELSE findSlug(
        [i \in 1..Len(SrcAttachments) |->
            [id |-> SrcAttachments[i].id, slug |-> SrcAttachments[i].name]],
        tok.id)

NoFail == [key |-> <<>>, at |-> "none"]
SyFailChoices ==
    {NoFail} \cup
    [key : {<<"img", <<"f">>>>, <<"att", 2>>}, at : {"download", "upload"}]

\* One loop of processContent over the references of one kind: an asset
\* without an entry is downloaded and uploaded, dry run or not, and its
\* reference rewritten; a failure leaves the reference as it is.
RECURSIVE processMatches(_, _, _, _, _, _)
processMatches(kind, tokens, st, out, acc, fail) ==
    IF tokens = <<>>
    THEN [state |-> st, content |-> out, calls |-> acc.calls,
          uploaded |-> acc.uploaded, failed |-> acc.failed]
    ELSE LET tok == Head(tokens)
             key == assetKey(tok)
             name == assetFilename(tok)
             to(loc) == IF kind = "image" THEN ImageTo(tok.alt, loc)
                        ELSE LinkTo(tok.name, loc)
         IN  IF tok.k # kind
             THEN processMatches(kind, Tail(tokens), st, Append(out, tok),
                                 acc, fail)
             ELSE IF key \in DOMAIN st.assets
             THEN processMatches(kind, Tail(tokens), st,
                                 Append(out, to(st.assets[key])), acc, fail)
             ELSE IF fail = [key |-> key, at |-> "download"]
             THEN processMatches(kind, Tail(tokens), st, Append(out, tok),
                     [acc EXCEPT !.calls = Append(@, Download(kind, key)),
                                 !.failed = TRUE], fail)
             ELSE IF fail = [key |-> key, at |-> "upload"]
             THEN processMatches(kind, Tail(tokens), st, Append(out, tok),
                     [acc EXCEPT !.calls = @ \o <<Download(kind, key),
                                                  Upload(name)>>,
                                 !.failed = TRUE], fail)
             ELSE processMatches(kind, Tail(tokens),
                     [st EXCEPT !.assets = (key :> Locator(name)) @@ @],
                     Append(out, to(Locator(name))),
                     [acc EXCEPT !.calls = @ \o <<Download(kind, key),
                                                  Upload(name)>>,
                                 !.uploaded = @ + 1], fail)

\* processContent of the second script of wiki_sync.js: the images, then
\* the attachments.
processContent(content, st, fail) ==
    LET images == processMatches("image", content, st, <<>>,
                     [calls |-> <<>>, uploaded |-> 0, failed |-> FALSE], fail)
    IN  processMatches("attachment", images.content, images.state, <<>>,
                     [calls |-> images.calls, uploaded |-> images.uploaded,
                      failed |-> images.failed], fail)

\* Sync.syncPage: the lookup by path, then an update of the page found or a
\* create; a failed request raises.
syncSyncPage(path, target, findOk, mutationOk) ==
    IF ~findOk
    THEN [target |-> target, calls |-> <<"find">>, threw |-> TRUE]
    ELSE IF path \in target
    THEN [target |-> target, calls |-> <<"find", "update">>,
          threw |-> ~mutationOk]
    ELSE [target |-> IF mutationOk THEN target \cup {path} ELSE target,
          calls |-> <<"find", "create">>, threw |-> ~mutationOk]

Count(calls, op) == Cardinality({i \in 1..Len(calls) : calls[i] = op})
CountOp(calls, op) == Cardinality({i \in 1..Len(calls) : calls[i].op = op})

\* The body of the page loop of run(): the new value of sy.
pageIteration(page, s, detailOk, fail, findOk, mutationOk) ==
    IF ~detailOk
    THEN [sy |-> [s EXCEPT !.stats.errors = @ + 1, !.work = Tail(@),
                           !.calls = <<>>],
          failed |-> FALSE, findIssued |-> FALSE, mutationIssued |-> FALSE]
    ELSE LET pagePath == syncPagePath(page, SrcBooks, SrcChapters, s.bookToShelf)
             c == processContent(SrcDetail(page.id).markdown, s.state, fail)
             p == IF s.dryRun
                  THEN [target |-> s.target, calls |-> <<>>, threw |-> FALSE]
                  ELSE syncSyncPage(pagePath, s.target, findOk, mutationOk)
         IN  [sy |-> [s EXCEPT
                        !.state = c.state,
                        !.target = p.target,
                        !.stats = [pages |-> @.pages + B(~p.threw),
                                   assets |-> @.assets + c.uploaded,
                                   errors |-> @.errors + B(p.threw)],
                        !.net = [downloads |-> @.downloads
                                                + CountOp(c.calls, "download"),
                                 uploads |-> @.uploads
                                                + CountOp(c.calls, "upload"),
                                 finds |-> @.finds + Count(p.calls, "find"),
                                 creates |-> @.creates + Count(p.calls, "create"),
                                 updates |-> @.updates + Count(p.calls, "update"),
                                 processed |-> @.processed + 1],
                        !.calls = c.calls,
                        !.work = Tail(@)],
              failed |-> c.failed,
              findIssued |-> p.calls # <<>>,
              mutationIssued |-> Len(p.calls) = 2]

SyncInit ==
    /\ MainInit
    /\ config.includeDrafts = FALSE
    /\ config.hierarchySeparator = <<"/">>
    /\ pt = PtIdle
    /\ sy \in {SyInitial(v) : v \in SyVariants}
    /\ tc = TcIdle
    /\ pg = PgIdle
    /\ cp = CpIdle

\* main() reads --dry-run, builds the object and calls run(): loadState.
SyStart ==
    /\ sy.pc = "idle"
    /\ sy.runs < MaxRuns
    /\ \E dryRun \in BOOLEAN :
         sy' = [sy EXCEPT !.pc = "mkdir", !.runs = @ + 1, !.dryRun = dryRun,
                          !.state = IF sy.disk.exists THEN sy.disk.content
                                    ELSE SyFreshState,
                          !.stats = SyZeroStats, !.net = SyZeroNet,
                          !.calls = <<>>, !.work = <<>>,
                          !.outcome = "running"]
    /\ UNCHANGED <<mainVars, pt, tc, pg, cp>>

\* fs.mkdir of the assets directory; when it rejects, run() rejects and
\* main().catch(console.error) ends the process.
SyMkdir ==
    /\ sy.pc = "mkdir"
    /\ sy' = IF mkdirRejects(assetsDirOf(sy.variant))
             THEN [sy EXCEPT !.pc = "idle", !.outcome = "aborted"]
             ELSE [sy EXCEPT !.pc = "fetch"]
    /\ UNCHANGED <<mainVars, pt, tc, pg, cp>>

\* getUserId, the four fetchAll calls and buildShelfMapping.  A failed
\* listing makes run() reject; a failed shelf listing is skipped.
SyFetch ==
    /\ sy.pc = "fetch"
    /\ \E userOk \in BOOLEAN, listOk \in BOOLEAN, failed \in SUBSET {1} :
         /\ sy.faults + B(~userOk) + B(~listOk) + Cardinality(failed)
               <= MaxFaults
         /\ ~listOk => failed = {}
         /\ sy' = IF listOk
                  THEN [sy EXCEPT
                          !.pc = "pages",
                          !.faults = @ + B(~userOk) + Cardinality(failed),
                          !.userId = getUserId(WikiUsers, userOk),
                          !.bookToShelf = buildShelfMapping(SrcShelves, failed),
                          !.work = SrcPages]
                  ELSE [sy EXCEPT
                          !.pc = "idle", !.outcome = "aborted",
                          !.faults = @ + B(~userOk) + 1,
                          !.userId = getUserId(WikiUsers, userOk)]
    /\ UNCHANGED <<mainVars, pt, tc, pg, cp>>

\* One iteration of the page loop of run().
SyPage ==
    /\ sy.pc = "pages"
    /\ sy.work # <<>>
    /\ \E detailOk \in BOOLEAN, fail \in SyFailChoices,
          findOk \in BOOLEAN, mutationOk \in BOOLEAN :
         /\ sy.faults + B(~detailOk) + B(fail # NoFail) + B(~findOk)
               + B(~mutationOk) <= MaxFaults
         /\ \E r \in {pageIteration(Head(sy.work), sy, detailOk, fail,
                                    findOk, mutationOk)} :
               /\ fail # NoFail => r.failed
               /\ ~findOk => r.findIssued
               /\ ~mutationOk => r.mutationIssued
               /\ sy' = [r.sy EXCEPT !.faults = @ + B(~detailOk)
                                        + B(fail # NoFail) + B(~findOk)
                                        + B(~mutationOk)]
    /\ UNCHANGED <<mainVars, pt, tc, pg, cp>>

\* saveState and the closing summary; a failed write makes run() reject.
SySave ==
    /\ sy.pc = "pages"
    /\ sy.work = <<>>
    /\ \E writeOk \in BOOLEAN :
         /\ sy.faults + B(~writeOk) <= MaxFaults
         /\ sy' = IF writeOk
                  THEN [sy EXCEPT !.pc = "idle", !.outcome = "complete",
                                  !.disk = [exists |-> TRUE,
                                            content |-> sy.state]]
                  ELSE [sy EXCEPT !.pc = "idle", !.outcome = "aborted",
                                  !.faults = @ + 1]
    /\ UNCHANGED <<mainVars, pt, tc, pg, cp>>

SyncNext ==
    \/ SyStart
    \/ SyMkdir
    \/ SyFetch
    \/ SyPage
    \/ SySave

SyncSpec == SyncInit /\ [][SyncNext]_vars

----------------------------------------------------------------------------
(* transformContent on its own: one call, with arbitrary content and       *)
(* assetMap                                                                 *)

\* Longest content, in tokens.
TcMaxLen == 2

\* File names of assets: one is a suffix of another.
TcNames == { <<"f">>, <<"g", "f">>, <<"h">> }
\* What assetMap can hold: locators the target returned, or the placeholder
\* a dry run records.
TcLocators == {Locator(n) : n \in TcNames} \cup {Placeholder}
TcIds == {1, 2}
TcAssetMaps == UNION {[ids -> TcLocators] : ids \in SUBSET TcIds}

\* Plain text, image references (one with an empty alt text) and
\* attachment links (one to an id no asset has).
TcTokens ==
    { Text("t"), ImageRef("a", <<"f">>), ImageRef("", <<"h">>),
      AttachmentRef("n", 1), AttachmentRef("n", 3) }
TcContents == UNION {[1..n -> TcTokens] : n \in 0..TcMaxLen}

TcInputs ==
    [phase : {"input"}, content : TcContents, assetMap : TcAssetMaps,
     out : {<<>>}]

TransformInit ==
    /\ MainInit
    /\ config.includeDrafts = FALSE
    /\ config.hierarchySeparator = <<"/">>
    /\ pt = PtIdle
    /\ sy = SyIdle
    /\ tc \in TcInputs
    /\ pg = PgIdle
    /\ cp = CpIdle

\* syncPage calls transformContent(page.markdown, page.html).
TcTransform ==
    /\ tc.phase = "input"
    /\ tc' = [tc EXCEPT !.phase = "done",
                        !.out = transformContent(tc.content, tc.assetMap)]
    /\ UNCHANGED <<mainVars, pt, sy, pg, cp>>

TransformNext == TcTransform

TransformSpec == TransformInit /\ [][TransformNext]_vars

----------------------------------------------------------------------------
(* paginateBookStack on its own: the first two listings of                  *)
(* fetchBookStackHierarchy against a source with arbitrary answers          *)

\* Number of requests of a listing the source is set up to answer.
PgMaxRequests == 2

\* The items of a data array of n items in answer to request k.
PgItems(k, n) == [i \in 1..n |-> 10 * k + i]

\* What request k can be answered with: a failure, a body without a data
\* array, or between 0 and pageSize items.
PgAnswers(k) ==
    {FailedReply, MalformedReply}
    \cup {DataReply(PgItems(k, n)) : n \in 0..PageSize}

\* The sources: what they answer to requests 1..n, n up to PgMaxRequests.
PgSources ==
    UNION {{f \in [1..n -> UNION {PgAnswers(k) : k \in 1..n}] :
               \A k \in 1..n : f[k] \in PgAnswers(k)} :
           n \in 1..PgMaxRequests}

NoListing == [results |-> <<>>, log |-> <<>>]

PgInputs ==
    [phase : {"shelves"}, shelfReplies : PgSources, bookReplies : PgSources,
     shelves : {NoListing}, books : {NoListing}]

PaginateInit ==
    /\ MainInit
    /\ config.includeDrafts = FALSE
    /\ config.hierarchySeparator = <<"/">>
    /\ pt = PtIdle
    /\ sy = SyIdle
    /\ tc = TcIdle
    /\ pg \in PgInputs
    /\ cp = CpIdle

\* fetchBookStackHierarchy: paginateBookStack('/shelves').
PgShelves ==
    /\ pg.phase = "shelves"
    /\ pg' = [pg EXCEPT !.phase = "books",
                        !.shelves = paginateWith(pg.shelfReplies, 1, <<>>,
                                                 <<>>)]
    /\ UNCHANGED <<mainVars, pt, sy, tc, cp>>

\* fetchBookStackHierarchy: paginateBookStack('/books').
PgBooks ==
    /\ pg.phase = "books"
    /\ pg' = [pg EXCEPT !.phase = "done",
                        !.books = paginateWith(pg.bookReplies, 1, <<>>, <<>>)]
    /\ UNCHANGED <<mainVars, pt, sy, tc, cp>>

PaginateNext ==
    \/ PgShelves
    \/ PgBooks

PaginateSpec == PaginateInit /\ [][PaginateNext]_vars

----------------------------------------------------------------------------
(* processContent of src/unnamed/part_000, and the saveState after it       *)

CpMaxLen == 2

\* String(promise): what String.prototype.replace writes in place of a
\* match when its callback is an async function.
PromiseText == Text("[object Promise]")

CpTokens ==
    { Text("t"), ImageRef("a", <<"f">>), ImageRef("", <<"h">>),
      AttachmentRef("n", 2) }
CpContents == UNION {[1..n -> CpTokens] : n \in 0..CpMaxLen}

\* state.assets as loadState left it.
CpAssets ==
    { EmptyMap,
      (<<"img", <<"f">>>> :> Locator(<<"f">>)),
      (<<"att", 2>> :> Locator(<<"n">>)) }

\* The image pass: content.replace(regex, async callback).  Each callback
\* runs up to its first await, so an image without an entry has its GET
\* issued; the value replace() receives is the callback's promise.
imagePass(content, assets) ==
    [content |-> [i \in 1..Len(content) |->
                     IF content[i].k = "image" THEN PromiseText
                     ELSE content[i]],
     started |-> {[at |-> i, alt |-> content[i].alt, file |-> content[i].file,
                   stage |-> "download"] :
                  i \in {j \in 1..Len(content) :
                            /\ content[j].k = "image"
                            /\ assetKey(content[j]) \notin DOMAIN assets}}]

\* The attachment loop where createWriteStream is not declared: the GET is
\* awaited, the reference error lands in the catch, the link stays.
attachmentsWithoutStream(content, st) ==
    LET cached(t) == t.k = "attachment" /\ assetKey(t) \in DOMAIN st.assets
        missing(t) == t.k = "attachment" /\ assetKey(t) \notin DOMAIN st.assets
        tried == SelectSeq(content, missing)
    IN  [state |-> st,
         content |-> [i \in 1..Len(content) |->
                        IF cached(content[i])
                        THEN LinkTo(content[i].name,
                                    st.assets[assetKey(content[i])])
                        ELSE content[i]],
         calls |-> [i \in 1..Len(tried) |->
                      Download("attachment", assetKey(tried[i]))],
         uploaded |-> 0, failed |-> tried # <<>>]

\* The attachment pass: an awaited for-loop over the links.
attachmentPass(content, st, declared, fail) ==
    IF declared
    THEN processMatches("attachment", content, st, <<>>,
                        [calls |-> <<>>, uploaded |-> 0, failed |-> FALSE],
                        fail)
    ELSE attachmentsWithoutStream(content, st)

CpFailChoices ==
    {NoFail} \cup [key : {<<"att", 2>>}, at : {"download", "upload"}]

\* A Sync object of part_000 about to call processContent on one page.
\* declared: whether the file the fragment belongs to declares
\* createWriteStream (part_000 itself does not).
CpInputs ==
    [phase : {"call"}, declared : BOOLEAN, input : CpContents,
     state : [assets : CpAssets], disk : {[assets |-> EmptyMap]},
     content : {<<>>}, inFlight : {{}}, assetsStat : {0}, faults : {0},
     calls : {<<>>}]

ContentInit ==
    /\ MainInit
    /\ config.includeDrafts = FALSE
    /\ config.hierarchySeparator = <<"/">>
    /\ pt = PtIdle
    /\ sy = SyIdle
    /\ tc = TcIdle
    /\ pg = PgIdle
    /\ cp \in CpInputs

\* processContent up to the end of content.replace: the image pass.
CpImages ==
    /\ cp.phase = "call"
    /\ \E r \in {imagePass(cp.input, cp.state.assets)} :
         cp' = [cp EXCEPT !.phase = "attachments", !.content = r.content,
                          !.inFlight = r.started,
                          !.calls = [i \in 1..Cardinality(r.started) |->
                                        "download"]]
    /\ UNCHANGED <<mainVars, pt, sy, tc, pg>>

\* The attachment loop, and processContent's return.
CpAttachments ==
    /\ cp.phase = "attachments"
    /\ \E fail \in CpFailChoices :
         /\ cp.faults + B(fail # NoFail) <= MaxFaults
         /\ \E r \in {attachmentPass(cp.content, cp.state, cp.declared, fail)} :
              /\ fail # NoFail => r.failed /\ cp.declared
              /\ cp' = [cp EXCEPT !.phase = "returned", !.content = r.content,
                                  !.state = r.state,
                                  !.assetsStat = @ + r.uploaded,
                                  !.faults = @ + B(fail # NoFail)]
    /\ UNCHANGED <<mainVars, pt, sy, tc, pg>>

\* An image callback resumes after its GET: the stream is written and the
\* upload issued, or the catch ends the callback.
CpDownloaded ==
    /\ cp.phase # "call"
    /\ \E x \in cp.inFlight, ok \in BOOLEAN :
         /\ x.stage = "download"
         /\ cp.faults + B(~ok) <= MaxFaults
         /\ cp' = [cp EXCEPT
                     !.inFlight = IF ok /\ cp.declared
                                  THEN (@ \ {x}) \cup {[x EXCEPT !.stage = "upload"]}
                                  ELSE @ \ {x},
                     !.calls = IF ok /\ cp.declared THEN Append(@, "upload")
                               ELSE @,
                     !.faults = @ + B(~ok)]
    /\ UNCHANGED <<mainVars, pt, sy, tc, pg>>

\* An image callback resumes after uploadAsset: the entry is written and
\* the counter raised, or the catch ends the callback.
CpUploaded ==
    /\ cp.phase # "call"
    /\ \E x \in cp.inFlight, ok \in BOOLEAN :
         /\ x.stage = "upload"
         /\ cp.faults + B(~ok) <= MaxFaults
         /\ cp' = [cp EXCEPT
                     !.inFlight = @ \ {x},
                     !.state.assets = IF ok
                                      THEN (<<"img", x.file>> :> Locator(x.file)) @@ @
                                      ELSE @,
                     !.assetsStat = @ + B(ok),
                     !.faults = @ + B(~ok)]
    /\ UNCHANGED <<mainVars, pt, sy, tc, pg>>

\* run() after the page loop: saveState writes this.state.
CpSave ==
    /\ cp.phase = "returned"
    /\ cp' = [cp EXCEPT !.phase = "saved", !.disk = cp.state]
    /\ UNCHANGED <<mainVars, pt, sy, tc, pg>>

ContentNext ==
    \/ CpImages
    \/ CpAttachments
    \/ CpDownloaded
    \/ CpUploaded
    \/ CpSave

ContentSpec == ContentInit /\ [][ContentNext]_vars

----------------------------------------------------------------------------
(* Claims about BookStackToWikiJSSync, checked under Spec                   *)

\* C1: syncAsset called for an asset whose id has an entry in
\* state.assetMap (recorded earlier in this run or loaded from the state
\* file) returns that entry, issues no download and no upload, and leaves
\* assetMap and the stats counters unchanged.
C1_CachedAssetUntouched ==
    [][ ( /\ pc \in {"images", "attachments"}
          /\ work # <<>>
          /\ Head(work).id \in DOMAIN state.assetMap )
        => ( /\ last'.op = "syncAsset"
             /\ last'.calls = <<>>
             /\ last'.ret = state.assetMap[Head(work).id]
             /\ net'.downloads = net.downloads
             /\ net'.uploads = net.uploads
             /\ state'.assetMap = state.assetMap
             /\ stats' = stats ) ]_vars

\* A second process has served an asset from the map it loaded.
C1_Witness ==
    /\ runs = 2
    /\ last.op = "syncAsset"
    /\ last.outcome = "cached"
    /\ last.ret = Locator(<<"f">>)

\* C2 as stated: for every asset without an entry, two calls of syncAsset in
\* one state lifetime make exactly one download and one upload in total,
\* and the second returns the locator of the first without any network call.
C2_Original ==
    \A k \in AssetKeys :
        (hist[k].calls = 2 /\ hist[k].first # "cached")
        => ( /\ hist[k].downloads = 1
             /\ hist[k].uploads = 1
             /\ hist[k].lastRet = hist[k].firstRet
             /\ hist[k].lastCalls = 0 )

\* C2 as amended: with dry-run off, when the first call for an asset without
\* an entry downloads and uploads it successfully, every later call in that
\* state lifetime returns the recorded locator without any network call, so
\* the asset is downloaded once and uploaded once in total.
C2_OneTransferAfterSuccess ==
    \A k \in AssetKeys :
        (hist[k].calls >= 2 /\ hist[k].first = "uploaded")
        => ( /\ hist[k].downloads = 1
             /\ hist[k].uploads = 1
             /\ hist[k].lastRet = hist[k].firstRet
             /\ hist[k].lastRet # NullLocator
             /\ hist[k].lastCalls = 0 )

\* An asset uploaded by one call has been asked for again.
C2_Witness ==
    \E k \in AssetKeys :
        /\ hist[k].calls = 2
        /\ hist[k].first = "uploaded"
        /\ last.op = "syncAsset"
        /\ <<last.type, last.id>> = k

\* The identity mapUser returns for a source user once it has not raised.
ExpectedIdentity(uid) ==
    IF uid \in DOMAIN state.userMap THEN state.userMap[uid]
    ELSE state.defaultUserId

SourcePage(id) ==
    SrcPages[CHOOSE i \in 1..Len(SrcPages) : SrcPages[i].id = id]

\* C3: with dry-run off, once syncPage has queried the target for the
\* resolved path p: if a page was found, exactly one update goes out, with
\* that page's id, the title, the transformed content, isPublished = ~draft
\* and the updater's identity, and no create; if none was found, exactly
\* one create goes out, with path p, the same fields and the creator's
\* identity, no update, and on success pageMap[page.id] is the id the
\* target returned.
C3_UpsertBranches ==
    (last.op = "syncPage" /\ ~config.dryRun /\ last.findIssued)
    => LET p == SourcePage(last.id)
           d == SrcDetail(last.id)
           content == transformContent(d.markdown, state.assetMap)
       IN  IF last.found # 0
           THEN /\ last.found = wiki[last.path].id
                /\ last.calls =
                     << [op |-> "update", id |-> last.found,
                         title |-> p.name, description |-> content,
                         isPublished |-> ~p.draft,
                         authorId |-> ExpectedIdentity(d.updated_by)] >>
           ELSE /\ last.calls =
                     << [op |-> "create", path |-> last.path,
                         title |-> p.name, description |-> content,
                         isPublished |-> ~p.draft,
                         authorId |-> ExpectedIdentity(d.created_by),
                         creatorId |-> ExpectedIdentity(d.created_by)] >>
                /\ last.outcome = "created"
                   => /\ last.id \in DOMAIN state.pageMap
                      /\ state.pageMap[last.id] = wiki[last.path].id

\* A page has been updated after another was created.
C3_Witness ==
    /\ last.op = "syncPage"
    /\ ~config.dryRun
    /\ last.found # 0
    /\ last.outcome = "updated"
    /\ DOMAIN state.pageMap # {}

\* C4 as stated: a full run that follows a full non-dry run, on the same
\* hierarchy and with a target that answers every lookup, issues no create,
\* counts no created page and leaves pageMap as the first run saved it.
C4_Original ==
    ( /\ pc = "pages"
      /\ prev.complete
      /\ ~prev.dryRun
      /\ prev.pages = hierarchy.pages
      /\ net.findsFailed = 0 )
    => ( /\ net.creates = 0
         /\ stats.pagesCreated = 0
         /\ state.pageMap = prev.pageMap )

\* C4 as amended: the same, provided the first run upserted every page of
\* the hierarchy without a page-level error.
C4_SecondRunCreatesNothing ==
    ( /\ pc = "pages"
      /\ prev.complete
      /\ ~prev.dryRun
      /\ prev.pageErrors = 0
      /\ prev.pages = hierarchy.pages
      /\ net.findsFailed = 0 )
    => ( /\ net.creates = 0
         /\ stats.pagesCreated = 0
         /\ state.pageMap = prev.pageMap )

\* A second run has updated every page a clean first run had upserted.
C4_Witness ==
    /\ pc = "pages"
    /\ work = <<>>
    /\ prev.complete
    /\ ~prev.dryRun
    /\ prev.pageErrors = 0
    /\ prev.pages = hierarchy.pages
    /\ Len(hierarchy.pages) = 3
    /\ stats.pagesUpdated = 3
    /\ DOMAIN state.pageMap # {}

\* The number of segments of a resolved path: the pieces between the
\* occurrences of the configured separator.
SegmentCount(page) ==
    splitLength(getPagePath(page, config.hierarchySeparator),
                config.hierarchySeparator[1])

\* C5: for every configured separator, syncPages processes the pages in
\* non-decreasing order of the number of segments of their resolved paths:
\* no page is processed before a page with strictly fewer segments.
C5_DepthOrder ==
    pc = "pages"
    => \A i \in 1..(Len(hierarchy.pages) - Len(work)) :
         \A j \in 1..Len(hierarchy.pages) :
            i < j => SegmentCount(hierarchy.pages[i])
                        <= SegmentCount(hierarchy.pages[j])

\* C6: in a dry run no create, no update and no upload reaches the target,
\* while every page of the hierarchy still has its path resolved and its
\* content transformed.
C6_DryRunSendsNothing ==
    config.dryRun
    => ( /\ net.creates = 0
         /\ net.updates = 0
         /\ net.uploads = 0
         /\ last.op = "syncPage" => last.calls = <<>>
         /\ last.op = "syncAsset"
            => \A i \in 1..Len(last.calls) : last.calls[i].to # "target"
         /\ pc = "pages"
            => /\ net.transforms = Len(hierarchy.pages) - Len(work)
               /\ net.resolves = Len(hierarchy.pages) - Len(work) )

\* A dry run has downloaded assets and gone through all its pages.
C6_Witness ==
    /\ config.dryRun
    /\ pc = "pages"
    /\ work = <<>>
    /\ Len(hierarchy.pages) >= 2
    /\ net.transforms = Len(hierarchy.pages)
    /\ net.downloads > 0
    /\ net.finds = Len(hierarchy.pages)

----------------------------------------------------------------------------
(* Claims about path resolution, checked under PathSpec                     *)

PtPresent(nodes, id) == \E i \in 1..Len(nodes) : nodes[i].id = id
PtSlug(nodes, id) == nodes[CHOOSE i \in 1..Len(nodes) : nodes[i].id = id].slug
PtJoined == join(pageParts(pt.enriched), pt.separator)
PtNormalise(s) ==
    [i \in 1..Len(toLowerCase(s)) |->
        IF toLowerCase(s)[i] \in PathCharClass THEN toLowerCase(s)[i] ELSE "-"]

\* C8 as stated: the resolved path is made of the slugs of the ancestors
\* that are present, in the order shelf, book, chapter, followed by the
\* page's slug; an absent ancestor contributes no segment.
C8_Original ==
    pt.phase = "resolved"
    => pt.path = PtNormalise(join(
          (IF PtPresent(pt.shelves, pt.page.shelf_id)
           THEN <<PtSlug(pt.shelves, pt.page.shelf_id)>> ELSE <<>>)
          \o (IF PtPresent(pt.books, pt.page.book_id)
              THEN <<PtSlug(pt.books, pt.page.book_id)>> ELSE <<>>)
          \o (IF PtPresent(pt.chapters, pt.page.chapter_id)
              THEN <<PtSlug(pt.chapters, pt.page.chapter_id)>> ELSE <<>>)
          \o <<pt.page.slug>>, pt.separator))

\* C8 as amended: the same, except that an absent book contributes the
\* fixed segment "uncategorized"; only an absent shelf or chapter
\* contributes no segment.
C8_AncestorSegments ==
    pt.phase = "resolved"
    => pt.path = PtNormalise(join(
          (IF PtPresent(pt.shelves, pt.page.shelf_id)
           THEN <<PtSlug(pt.shelves, pt.page.shelf_id)>> ELSE <<>>)
          \o <<IF PtPresent(pt.books, pt.page.book_id)
               THEN PtSlug(pt.books, pt.page.book_id) ELSE Uncategorized>>
          \o (IF PtPresent(pt.chapters, pt.page.chapter_id)
              THEN <<PtSlug(pt.chapters, pt.page.chapter_id)>> ELSE <<>>)
          \o <<pt.page.slug>>, pt.separator))

\* A page with a shelf and a chapter but no book has been resolved.
C8_Witness ==
    /\ pt.phase = "resolved"
    /\ PtPresent(pt.shelves, pt.page.shelf_id)
    /\ ~PtPresent(pt.books, pt.page.book_id)
    /\ PtPresent(pt.chapters, pt.page.chapter_id)
    /\ pt.separator = <<"/">>
    /\ pt.page.slug = <<"p">>
    /\ pt.path = <<"s", "/">> \o Uncategorized \o <<"/", "c", "-", "/", "p">>

\* C9 as stated: the path is the joined string lower-cased with every
\* character outside [a-z0-9/_-] replaced by '-', one for one: it has the
\* length of the joined string, holds characters of that class only, and
\* normalising it again returns it unchanged.
C9_Original ==
    pt.phase = "resolved"
    => /\ Len(pt.path) = Len(PtJoined)
       /\ \A i \in 1..Len(pt.path) : pt.path[i] \in PathCharClass
       /\ PtNormalise(pt.path) = pt.path

\* C9 as amended: the path has the length of the lower-cased joined string,
\* which is the length of the joined string whenever lower-casing keeps the
\* number of code units (it does not for U+0130); position by position it
\* is the lower-cased character when that is in [a-z0-9/_-] and '-'
\* otherwise; normalising it again returns it unchanged; and the page slug
\* "Getting Started!" under the book slug "Docs_v2" resolves to
\* "docs_v2/getting-started-".
C9_Normalisation ==
    pt.phase = "resolved"
    => LET lowered == toLowerCase(PtJoined)
       IN  /\ Len(pt.path) = Len(lowered)
           /\ (\A i \in 1..Len(PtJoined) : PtJoined[i] # "U+0130")
              => Len(pt.path) = Len(PtJoined)
           /\ \A i \in 1..Len(pt.path) :
                 /\ pt.path[i] \in PathCharClass
                 /\ lowered[i] \in PathCharClass => pt.path[i] = lowered[i]
                 /\ lowered[i] \notin PathCharClass => pt.path[i] = "-"
           /\ PtNormalise(pt.path) = pt.path
           /\ ( /\ pt.page.slug = GettingStarted
                /\ ~PtPresent(pt.shelves, pt.page.shelf_id)
                /\ PtPresent(pt.books, pt.page.book_id)
                /\ PtSlug(pt.books, pt.page.book_id) = DocsV2
                /\ ~PtPresent(pt.chapters, pt.page.chapter_id)
                /\ pt.separator = <<"/">> )
              => pt.path = DocsPath

\* The example of the claim has been resolved.
C9_Witness ==
    /\ pt.phase = "resolved"
    /\ pt.page.slug = GettingStarted
    /\ pt.enriched.bookSlug = DocsV2
    /\ pt.enriched.shelfSlug = <<>>
    /\ pt.enriched.chapterSlug = <<>>
    /\ pt.path = DocsPath

----------------------------------------------------------------------------
(* Claims about the Sync class, checked under SyncSpec                      *)

C11_DetailFailureCounted ==
    (/\ last.op = "fetchBookStackHierarchy"
     /\ ~last.listingFailed
     /\ Cardinality(last.noDetail) = 1)
    => /\ pc = "users"
       /\ hierarchy.pages =
            SelectSeq(fetchBookStackHierarchy(0, 0, 0, 0, {},
                                              config.includeDrafts).pages,
                      LAMBDA p : p.id \notin last.noDetail)
       /\ Len(hierarchy.pages) = Cardinality(last.requested) - 1
       /\ stats.errors = 1

\* A step in which syncAsset ran and its download or its upload failed.
AssetFailureStep ==
    /\ net'.assetCalls = net.assetCalls + 1
    /\ (~last'.downloadOk \/ ~last'.uploadOk)

\* What C12 says of such a step, but for the value returned: the error
\* counter goes up by exactly one and no other counter moves, nothing is
\* raised (the loop of syncAssets goes on with the next asset, no exit),
\* assetMap is left as it was and holds no entry for the asset.
AssetFailureHandled ==
    /\ stats' = [stats EXCEPT !.errors = @ + 1]
    /\ state' = state
    /\ ~assetCached(state'.assetMap, last'.id)
    /\ pc' = pc
    /\ work' = Tail(work)
    /\ exitCode' = exitCode

\* Once the loops of syncAssets are over, syncAsset has been called for
\* every image and every attachment that was listed.
AllAssetsProcessed ==
    (pc \in {"pages", "stats"} \/ (pc = "attachments" /\ work = <<>>))
    => net.assetCalls = net.assetsListed

\* C12 as stated: when the download or the upload of one asset fails in
\* syncAsset, the error counter is incremented by exactly one, the call
\* returns a sentinel placeholder locator (a path, as '/placeholder.jpg' is)
\* instead of raising, assetMap gets no entry for the asset, and every
\* remaining image and attachment is still processed.
C12_Original ==
    /\ []AllAssetsProcessed
    /\ [][AssetFailureStep
          => (AssetFailureHandled /\ last'.ret # NullLocator)]_vars

\* C12 (amended): when the download or the upload of one asset fails in
\* syncAsset, the error counter is incremented by exactly one, the call
\* returns null (no locator at all) instead of raising, assetMap gets no
\* entry for the asset, so that a later call downloads it again unless an
\* entry under the same id has been recorded meanwhile (images and
\* attachments share the keys of assetMap), and every remaining image and
\* attachment is still processed.
C12_AssetFailureIsolated ==
    /\ []AllAssetsProcessed
    /\ [][AssetFailureStep
          => (AssetFailureHandled /\ last'.ret = NullLocator)]_vars
    /\ [][(/\ net'.assetCalls = net.assetCalls + 1
           /\ hist[<<last'.type, last'.id>>].lastCalls > 0
           /\ hist[<<last'.type, last'.id>>].lastRet = NullLocator
           /\ ~assetCached(state.assetMap, last'.id))
          => last'.calls # <<>>]_vars

\* A failed asset was followed by the remaining assets of its run and was
\* downloaded again by the next run.
C12_Witness ==
    /\ pc = "pages"
    /\ runs = 2
    /\ net.assetsListed = Len(SrcImages) + Len(SrcAttachments)
    /\ \E k \in AssetKeys :
         /\ hist[k].first = "failed"
         /\ hist[k].calls = 2
         /\ hist[k].downloads = 2
         /\ hist[k].lastRet # NullLocator

\* A step in which syncPage ran and something raised inside its try block:
\* mapUser (the default identity was not to be had), or the create or update
\* that was sent (the request failed, or the target refused a create for a
\* path it already holds).  transformContent raises on no input.
PageRaiseStep ==
    /\ net'.resolves = net.resolves + 1
    /\ \/ last'.mapThrew
       \/ /\ last'.calls # <<>>
          /\ \/ ~last'.mutationOk
             \/ (last'.calls[1].op = "create" /\ last'.path \in DOMAIN wiki)

\* A step in which syncPage ran and its find-by-path request failed.
PageFindFailedStep ==
    /\ net'.resolves = net.resolves + 1
    /\ ~last'.findOk

\* The failure is caught within syncPage: the error counter goes up by
\* exactly one, the page counters do not move, pageMap and the target are
\* left as they were, and the loop of syncPages goes on with the next page.
PageFailureHandled ==
    /\ stats'.errors = stats.errors + 1
    /\ stats'.pagesCreated = stats.pagesCreated
    /\ stats'.pagesUpdated = stats.pagesUpdated
    /\ state'.pageMap = state.pageMap
    /\ wiki' = wiki
    /\ pc' = "pages"
    /\ work' = Tail(work)
    /\ exitCode' = exitCode

\* The state is persisted only when syncPage has been called for every page
\* of the sorted hierarchy, the failed ones included.
AllPagesProcessed ==
    pc = "stats" => /\ net.resolves = Len(hierarchy.pages)
                    /\ disk.exists
                    /\ disk.content = state

\* C13 as stated: a failure while upserting one page (identity mapping,
\* find, create or update) is caught within syncPage with the error counter
\* incremented by exactly one and no entry written to pageMap, every later
\* page is still processed, and the run goes on to persist the state.
C13_Original ==
    /\ []AllPagesProcessed
    /\ [][(PageRaiseStep \/ PageFindFailedStep) => PageFailureHandled]_vars

\* C13 (amended): as above for identity mapping, create and update; a failed
\* find never reaches the catch of syncPage, since findWikiJSPage catches it
\* and answers null, so the page counts no error for it and is treated as
\* absent from the target.
C13_PageFailureIsolated ==
    /\ []AllPagesProcessed
    /\ [][PageRaiseStep => PageFailureHandled]_vars
    /\ [][(PageFindFailedStep /\ ~PageRaiseStep)
          => /\ stats'.errors = stats.errors
             /\ last'.found = 0
             /\ last'.outcome = "created"]_vars

\* A run in which the create or the update of one page raised, every other
\* page was upserted, and the state was persisted.
C13_Witness ==
    /\ pc = "stats"
    /\ net.pageErrors = 1
    /\ stats.errors = 1
    /\ Len(hierarchy.pages) >= 2
    /\ net.creates + net.updates = Len(hierarchy.pages)
    /\ stats.pagesCreated + stats.pagesUpdated = Len(hierarchy.pages) - 1

\* The state file is read by loadState at run start and by nothing else, and
\* what the run then holds in memory is what the file holds.
StateReadOnce ==
    /\ pc # "idle" => net.stateReads = 1
    /\ last.op = "loadState" =>
         state = IF disk.exists THEN disk.content ELSE FreshState

\* Until saveState is called the state file is what it was at run start,
\* whether the run is under way or has aborted; saveState is called at most
\* once in a run.
StateFileUntouched ==
    /\ net.stateWrites <= 1
    /\ (runs > 0 /\ net.stateWrites = 0) => disk = net.diskAtStart
    /\ (exitCode = 1 /\ last.op # "saveState") => disk = net.diskAtStart

\* A step that changes the state file is the one call of saveState, taken
\* when syncPage has been called for every page; it writes the whole state.
StateWrittenAtEnd ==
    disk' # disk
    => /\ pc = "pages"
       /\ work = <<>>
       /\ net.resolves = Len(hierarchy.pages)
       /\ net.stateWrites = 0
       /\ net'.stateWrites = 1
       /\ disk' = [exists |-> TRUE, content |-> state']

\* C14: in every run the persisted state is read once, at run start, and
\* written at most once, only after every page has been processed; when the
\* run aborts with a fatal error before that point the persisted record is
\* exactly what it was at run start.
C14_StateReadOnceWrittenAtEnd ==
    /\ []StateReadOnce
    /\ []StateFileUntouched
    /\ [][StateWrittenAtEnd]_vars
    /\ [][net'.stateReads # net.stateReads => last'.op = "loadState"]_vars

\* A second run, started from the record the first run wrote, has aborted
\* before its saveState and the record is still that of the first run.
C14_Witness ==
    /\ runs = 2
    /\ exitCode = 1
    /\ last.op = "mapAllUsers"
    /\ net.diskAtStart.exists
    /\ disk = net.diskAtStart
    /\ disk.content.assetMap # EmptyMap

\* A run has ended: the process has exited with a status.
RunEnded == pc = "idle" /\ runs > 0

\* C15: every run prints the final statistics summary before it ends, the
\* runs that end with a fatal error and a non-zero exit status included.  A
\* run that has ended prints nothing more, so "eventually" is "by its end".
C15_StatsAlwaysPrinted ==
    RunEnded => net.statsPrinted = 1

\* C16: the exit status reflects the error count: a run that completes all
\* its phases with stats.errors > 0 exits non-zero, a run with zero errors
\* exits with status zero.
C16_ExitReflectsErrors ==
    (RunEnded /\ last.op = "printStats")
    => /\ stats.errors > 0 => exitCode # 0
       /\ stats.errors = 0 => exitCode = 0

----------------------------------------------------------------------------
(* Claims about transformContent, checked under TransformSpec               *)

\* The entries of assetMap whose locator includes the file name.
TcMatching(file) ==
    {id \in DOMAIN tc.assetMap : includes(tc.assetMap[id], file)}

\* The token is a reference no entry of assetMap matches.
TcUnmatched(tok) ==
    \/ tok.k = "image" /\ TcMatching(tok.file) = {}
    \/ tok.k = "attachment" /\ tok.id \notin DOMAIN tc.assetMap

TcIsReference(tok) == tok.k \in {"image", "attachment"}

\* C17: transformContent leaves unchanged every image or attachment
\* reference that no entry of assetMap matches (and every stretch of plain
\* text), returns content without references exactly as given, and returns
\* a single space for empty content; assetMap is the same before and after.
C17_UnmatchedLeftUnchanged ==
    /\ [](tc.phase = "done" =>
            /\ tc.content = <<>> => tc.out = <<Text(" ")>>
            /\ tc.content # <<>> =>
                 /\ Len(tc.out) = Len(tc.content)
                 /\ \A i \in 1..Len(tc.content) :
                      (TcUnmatched(tc.content[i])
                       \/ ~TcIsReference(tc.content[i]))
                      => tc.out[i] = tc.content[i]
            /\ (tc.content # <<>>
                /\ \A i \in 1..Len(tc.content) :
                     ~TcIsReference(tc.content[i]))
               => tc.out = tc.content)
    /\ [][tc.phase = "input" =>
            /\ tc'.assetMap = tc.assetMap
            /\ tc'.content = tc.content]_vars

\* Content with a reference that is rewritten next to one that is left as
\* it is for want of an entry.
C17_Witness ==
    /\ tc.phase = "done"
    /\ Len(tc.content) = 2
    /\ TcUnmatched(tc.content[1])
    /\ tc.out[1] = tc.content[1]
    /\ tc.out[2] # tc.content[2]

\* The image references of the content that some entry of assetMap matches.
TcMatchedImages ==
    {i \in 1..Len(tc.content) :
        tc.content[i].k = "image" /\ TcMatching(tc.content[i].file) # {}}

\* Such a reference is rewritten to an image with the same alt text and
\* the locator of an entry that includes the file name.
TcImageRewritten(i) ==
    /\ tc.out[i].k = "imageTo"
    /\ tc.out[i].alt = tc.content[i].alt
    /\ \E id \in TcMatching(tc.content[i].file) :
         tc.out[i].to = tc.assetMap[id]

\* No two entries of assetMap hold the locator of the same file.
TcUniqueFilenames ==
    \A a, b \in DOMAIN tc.assetMap :
        (a # b /\ tc.assetMap[a] # Placeholder)
        => tc.assetMap[a] # tc.assetMap[b]

\* C18: an image reference whose file name some locator of assetMap
\* includes is rewritten to ![alt](locator), alt preserved, and with unique
\* file names the locator is the one of the asset of that name.
C18_ImageRewritten ==
    tc.phase = "done" =>
        \A i \in TcMatchedImages :
            /\ TcImageRewritten(i)
            /\ (/\ TcUniqueFilenames
                /\ \E id \in DOMAIN tc.assetMap :
                     tc.assetMap[id] = Locator(tc.content[i].file))
               => tc.out[i].to = Locator(tc.content[i].file)

----------------------------------------------------------------------------
(* Claims about the identities of BookStackToWikiJSSync, checked under Spec *)

\* The one default identity: the target user of config.wikijs.defaultUserEmail.
DefaultIdentity ==
    getWikiJSUserByEmail([loaded |-> TRUE, list |-> WikiUsers],
                         DefaultUserEmail)

\* C19: with skipUserMapping on, syncPage creates or updates the page (when
\* neither its find nor its create or update request fails), and every
\* create and update it sends carries the default identity as author and
\* creator.
C19_SkipUsersStillUpserts ==
    (/\ last.op = "syncPage"
     /\ config.skipUserMapping
     /\ last.findOk
     /\ last.mutationOk)
    => /\ last.outcome \in {"created", "updated"}
       /\ \A i \in 1..Len(last.calls) :
            /\ last.calls[i].authorId = DefaultIdentity
            /\ last.calls[i].op = "create"
               => last.calls[i].creatorId = DefaultIdentity

\* C20: a source user that cannot be resolved to a target user (its lookup
\* fails, its email has no target user, or the target user list could not
\* be loaded while user mapping is on) neither aborts the run in mapAllUsers
\* nor fails a page in syncPage.
C20_FallbackNeverBlocks ==
    ~config.skipUserMapping
    => /\ last.op = "mapAllUsers" => (~last.threw /\ exitCode # 1)
       /\ last.op = "syncPage" => ~last.mapThrew


----------------------------------------------------------------------------
(* Further claims about BookStackToWikiJSSync, checked under Spec           *)

\* C21: when syncPage sends a create or an update and the answer arrives
\* with responseResult.succeeded false, the page is a failed one: the error
\* counter goes up by one, neither pagesCreated nor pagesUpdated moves,
\* pageMap and the target are left as they were.
C21_FalseFlagIsFailure ==
    [][(/\ net'.resolves = net.resolves + 1
        /\ last'.calls # <<>>
        /\ last'.reply = "notSucceeded")
       => /\ last'.outcome = "error"
          /\ stats'.errors = stats.errors + 1
          /\ stats'.pagesCreated = stats.pagesCreated
          /\ stats'.pagesUpdated = stats.pagesUpdated
          /\ state'.pageMap = state.pageMap
          /\ wiki' = wiki]_vars

\* An update was answered with a false success flag and counted as an error.
C21_Witness ==
    /\ last.op = "syncPage"
    /\ last.reply = "notSucceeded"
    /\ last.calls # <<>>
    /\ last.calls[1].op = "update"
    /\ stats.errors = 1
    /\ stats.pagesUpdated = 0


\* C24: when syncAsset returns, the local file it wrote for the asset is
\* gone, whether the download and the upload succeeded or either failed.
C24_TempFileRemoved ==
    last.op = "syncAsset" => ~last.tempFile

\* C25: a find-by-path query that fails is handled as "not found": syncPage
\* goes for a create of that path (sent unless the run is a dry one); when
\* the target refuses the create, the path being taken, the page is a
\* failed one (errors +1, pagesCreated and pageMap as before), when the
\* path is free and the create is answered with success the page counts as
\* created, and the loop goes on with the next page.
C25_FailedFindIsNotFound ==
    [][(PageFindFailedStep /\ last'.findIssued)
       => /\ last'.found = 0
          /\ \A i \in 1..Len(last'.calls) :
               /\ last'.calls[i].op = "create"
               /\ last'.calls[i].path = last'.path
          /\ mutationsEnabled(config) => Len(last'.calls) = 1
          /\ ~mutationsEnabled(config) =>
               /\ last'.calls = <<>>
               /\ stats'.pagesCreated = stats.pagesCreated + 1
          /\ (mutationsEnabled(config) /\ last'.path \in DOMAIN wiki)
             => /\ last'.outcome = "error"
                /\ stats'.errors = stats.errors + 1
                /\ stats'.pagesCreated = stats.pagesCreated
                /\ state'.pageMap = state.pageMap
                /\ wiki' = wiki
          /\ ( /\ mutationsEnabled(config)
               /\ last'.path \notin DOMAIN wiki
               /\ last'.reply = "succeeded" )
             => /\ last'.outcome = "created"
                /\ stats'.errors = stats.errors
          /\ pc' = "pages"
          /\ work' = Tail(work)
          /\ exitCode' = exitCode]_vars

\* The find for a page the target holds failed, the create was refused, and
\* the pages after it were processed.
C25_Witness ==
    /\ pc = "stats"
    /\ net.findsFailed = 1
    /\ net.pageErrors = 1
    /\ net.updates = 0
    /\ net.creates = Len(hierarchy.pages)
    /\ stats.pagesCreated = Len(hierarchy.pages) - 1
    /\ Len(hierarchy.pages) >= 2

\* The place of each position of run() in the order load state, load
\* hierarchy, map users, sync assets, upsert pages, persist state, report.
PhaseRank ==
    [p \in {"idle", "fetch", "users", "listImages", "images", "attachments",
            "pages", "stats"} |->
        CASE p = "idle" -> 0
          [] p = "fetch" -> 1
          [] p = "users" -> 2
          [] p = "listImages" -> 3
          [] p = "images" -> 4
          [] p = "attachments" -> 5
          [] p = "pages" -> 6
          [] p = "stats" -> 7]

\* C26: within a run the phases follow each other in the order load state,
\* load hierarchy, map users, sync all assets, upsert all pages, persist
\* state, report stats (a fatal error ends the run where it is).  No asset
\* is listed, downloaded or uploaded before the hierarchy is loaded and
\* the users are mapped; no page find, create or update is issued before
\* syncAsset has been called for every listed asset; the state is written
\* after the last page and the stats are reported after that.
C26_PhaseOrder ==
    /\ [][pc' # pc =>
            \/ PhaseRank[pc'] = PhaseRank[pc] + 1
            \/ (pc' = "idle" /\ (exitCode' = 1 \/ pc = "stats"))]_vars
    /\ [][(\/ net'.downloads > net.downloads
           \/ net'.uploads > net.uploads
           \/ net'.assetCalls > net.assetCalls)
          => /\ pc \in {"images", "attachments"}
             /\ last.op \in {"listImages", "listAttachments", "syncAsset"}
             /\ net.stateReads = 1]_vars
    /\ [][last'.op = "listImages" => last.op = "mapAllUsers"]_vars
    /\ [][last'.op = "mapAllUsers" =>
             last.op = "fetchBookStackHierarchy"]_vars
    /\ [][last'.op = "fetchBookStackHierarchy" => last.op = "loadState"]_vars
    /\ [][(\/ net'.finds > net.finds
           \/ net'.creates > net.creates
           \/ net'.updates > net.updates
           \/ net'.resolves > net.resolves)
          => /\ pc = "pages"
             /\ net.assetCalls = net.assetsListed
             /\ last.op \in {"sortPages", "syncPage"}]_vars
    /\ [][net'.stateWrites > net.stateWrites
          => (pc = "pages" /\ work = <<>>
              /\ net.resolves = Len(hierarchy.pages)
              /\ net.statsPrinted = 0)]_vars
    /\ [][net'.statsPrinted > net.statsPrinted
          => (net.stateWrites = 1 /\ last.op = "saveState"
              /\ disk.content = state)]_vars

\* A run went through every phase, with assets transferred and pages sent.
C26_Witness ==
    /\ last.op = "printStats"
    /\ net.statsPrinted = 1
    /\ net.stateWrites = 1
    /\ net.assetCalls = Len(SrcImages) + Len(SrcAttachments)
    /\ net.uploads = Len(SrcImages) + Len(SrcAttachments) - 1
    /\ net.creates = Len(hierarchy.pages)
    /\ Len(hierarchy.pages) >= 2

\* The names of the source's assets of one id.
AssetNamesOf(id) ==
    {SrcImages[i].name : i \in {j \in 1..Len(SrcImages) : SrcImages[j].id = id}}
    \cup {SrcAttachments[i].name :
             i \in {j \in 1..Len(SrcAttachments) : SrcAttachments[j].id = id}}

\* Every value of the map is what the target answers to an upload of an
\* asset of that id.
HoldsUploadedLocators(assetMap) ==
    \A id \in DOMAIN assetMap :
        \E name \in AssetNamesOf(id) : assetMap[id] = Locator(name)

\* C28: over runs that share the persisted state, dry or not, every value
\* of assetMap, in memory and in the state file, is a locator the target
\* returned for an upload of that asset, and an asset first seen by a dry
\* run has been uploaded once a later real run has handled it without a
\* failure.
C28_AssetMapHoldsUploadedLocators ==
    /\ HoldsUploadedLocators(state.assetMap)
    /\ HoldsUploadedLocators(disk.content.assetMap)
    /\ ( /\ last.op = "syncAsset"
         /\ ~config.dryRun
         /\ last.outcome # "failed"
         /\ hist[<<last.type, last.id>>].first = "dry" )
       => hist[<<last.type, last.id>>].uploads >= 1

\* C29: an image and an attachment of the same numeric id do not shadow
\* each other: once the image has been uploaded and the attachment handled
\* without a failure, the attachment has been uploaded too, and a link
\* /attachments/N is rewritten to the locator returned for attachment N.
C29_NoShadowing ==
    \A i \in 1..Len(SrcImages), j \in 1..Len(SrcAttachments) :
        LET img == <<"image", SrcImages[i].id>>
            att == <<"attachment", SrcAttachments[j].id>>
        IN  ( /\ SrcImages[i].id = SrcAttachments[j].id
              /\ hist[img].first = "uploaded"
              /\ hist[att].calls >= 1
              /\ hist[att].first # "failed" )
            => ( /\ hist[att].uploads >= 1
                 /\ transformToken(AttachmentRef("n", SrcAttachments[j].id),
                                   state.assetMap)
                    = LinkTo("n", Locator(SrcAttachments[j].name)) )

\* No two pages of the hierarchy resolve to the same path.
PathsDistinct ==
    \A i, j \in 1..Len(hierarchy.pages) :
        i # j => getPagePath(hierarchy.pages[i], config.hierarchySeparator)
                 # getPagePath(hierarchy.pages[j], config.hierarchySeparator)

\* During the first run, which starts on an empty target, a page of the
\* target keeps the source page it was written for.
WrittenByOneSource ==
    (runs = 1 /\ runs' = 1)
    => \A p \in DOMAIN wiki : p \in DOMAIN wiki' /\ wiki'[p].src = wiki[p].src

\* C30: within one run no target page is written by two source pages: two
\* distinct pages of the hierarchy never resolve to the same path, and a
\* page created for one source page is not updated with another's.
C30_NoPathCollision == []PathsDistinct /\ [][WrittenByOneSource]_vars

\* A step in which syncPage ran; one in which syncAsset ran.
SyncPageStep == net'.resolves = net.resolves + 1
SyncAssetStep == net'.assetCalls = net.assetCalls + 1

\* Exactly one of pagesCreated, pagesUpdated and errors goes up, by one.
OneCounterMoves ==
    <<stats'.pagesCreated - stats.pagesCreated,
      stats'.pagesUpdated - stats.pagesUpdated,
      stats'.errors - stats.errors>>
    \in {<<1, 0, 0>>, <<0, 1, 0>>, <<0, 0, 1>>}

\* In the loop of syncPages the three counters have gone up by the number
\* of pages handled so far, hence by the number of pages at its end.
PagesAllCounted ==
    pc = "pages" => stats.pagesCreated + stats.pagesUpdated + net.pageErrors
                    = Len(hierarchy.pages) - Len(work)

\* pagesCreated goes up exactly when the target has gained a page.
CreatedIsCreated ==
    stats'.pagesCreated = stats.pagesCreated + 1 <=> DOMAIN wiki' # DOMAIN wiki

\* assetsUploaded goes up exactly when an upload was sent and answered with
\* a locator.
UploadedIsUploaded ==
    stats'.assetsUploaded = stats.assetsUploaded + 1
    <=> /\ \E i \in 1..Len(last'.calls) : last'.calls[i].op = "upload"
        /\ last'.ret # NullLocator

\* C31 as stated: each call of syncPage moves exactly one of pagesCreated,
\* pagesUpdated and errors by one, so the three have gone up by the number
\* of pages after syncPages; pagesCreated counts only pages created on the
\* target and assetsUploaded only assets uploaded to it.
C31_Original ==
    /\ []PagesAllCounted
    /\ [][SyncPageStep => (OneCounterMoves /\ CreatedIsCreated)]_vars
    /\ [][SyncAssetStep => UploadedIsUploaded]_vars

\* C31 as amended: the same, the last part for runs with dry-run off; in a
\* dry run nothing is created or uploaded, pagesCreated counts the pages
\* whose lookup found nothing and assetsUploaded the assets downloaded.
C31_CountersMatchOutcomes ==
    /\ []PagesAllCounted
    /\ [][SyncPageStep =>
            /\ OneCounterMoves
            /\ ~config.dryRun => CreatedIsCreated
            /\ config.dryRun =>
                 /\ wiki' = wiki
                 /\ stats'.pagesCreated = stats.pagesCreated + 1
                    <=> (last'.findIssued /\ last'.found = 0)]_vars
    /\ [][SyncAssetStep =>
            /\ ~config.dryRun => UploadedIsUploaded
            /\ config.dryRun =>
                 /\ \A i \in 1..Len(last'.calls) : last'.calls[i].op # "upload"
                 /\ stats'.assetsUploaded = stats.assetsUploaded + 1
                    <=> (last'.calls # <<>> /\ last'.ret # NullLocator)]_vars

\* syncPages has ended with created, updated and failed pages all counted,
\* in a run that sent its creates.
C31_Witness ==
    /\ pc = "pages"
    /\ work = <<>>
    /\ ~config.dryRun
    /\ stats.pagesCreated >= 1
    /\ net.pageErrors >= 1
    /\ stats.assetsUploaded >= 1
    /\ Len(hierarchy.pages) >= 2

\* The ids of the source pages flagged draft.
DraftIds == {SrcPages[i].id : i \in {j \in 1..Len(SrcPages) : SrcPages[j].draft}}

\* C32: with includeDrafts false, no detail request is made for a draft
\* page and none enters the hierarchy, no call of syncPage (hence no find,
\* create or update) is made for one, and every create and update sent
\* carries isPublished = true.
C32_DraftsSkipped ==
    /\ [][(pc = "fetch" /\ pc' # "fetch" /\ ~config.includeDrafts)
          => /\ last'.requested \cap DraftIds = {}
             /\ \A i \in 1..Len(hierarchy'.pages) :
                   /\ hierarchy'.pages[i].id \notin DraftIds
                   /\ ~hierarchy'.pages[i].draft]_vars
    /\ [][(SyncPageStep /\ ~config.includeDrafts)
          => /\ last'.id \notin DraftIds
             /\ \A i \in 1..Len(last'.calls) :
                   last'.calls[i].isPublished = TRUE]_vars

\* With includeDrafts false and a draft among the listed pages, the pages
\* have been sent to the target, creates and an update among them.
C32_Witness ==
    /\ ~config.includeDrafts
    /\ ~config.dryRun
    /\ DraftIds # {}
    /\ pc = "pages"
    /\ work = <<>>
    /\ Len(hierarchy.pages) = Len(SrcPages) - Cardinality(DraftIds)
    /\ net.finds = Len(hierarchy.pages)
    /\ net.creates + net.updates = Len(hierarchy.pages)
    /\ net.updates >= 1

----------------------------------------------------------------------------
(* Termination, checked under FairSpec                                     *)

\* Every listing of the last step in which no request failed took
\* floor(n / pageSize) + 1 requests for its n items.
RequestsAsExpected ==
    (last.op \in {"fetchBookStackHierarchy", "listImages", "listAttachments"})
    => \A l \in last.listings :
          l.failAt = 0 => l.requests = (l.size \div PageSize) + 1

\* The run has come to saveState or to the fatal catch of run().
RunSettled == net.stateWrites = 1 \/ exitCode = 1

\* C33: against a source that answers request k with the k-th slice of at
\* most pageSize of its n items, paginateBookStack ends after exactly
\* floor(n / pageSize) + 1 requests; and, every awaited call returning or
\* failing, a started run reaches saveState or the fatal abort.
C33_Terminates ==
    /\ []RequestsAsExpected
    /\ (pc # "idle") ~> RunSettled

\* A listing of a collection whose size is a multiple of pageSize took its
\* extra request, in a run that then came to saveState.
C33_Witness ==
    /\ net.stateWrites = 1
    /\ exitCode = -1
    /\ pc = "stats"
    /\ net.assetsListed = Len(SrcImages) + Len(SrcAttachments)
    /\ listing(SrcAttachments, 0).requests = 2
    /\ Len(SrcAttachments) = PageSize

----------------------------------------------------------------------------
(* Claims about paginateBookStack, checked under PaginateSpec               *)

\* The listings made so far, each with the answers of its source.
PgDone ==
    (IF pg.phase \in {"books", "done"}
     THEN {[replies |-> pg.shelfReplies, out |-> pg.shelves]} ELSE {})
    \cup (IF pg.phase = "done"
          THEN {[replies |-> pg.bookReplies, out |-> pg.books]} ELSE {})

\* The items of the answers to requests 1..n, in request order.
RECURSIVE PgConcat(_, _)
PgConcat(replies, n) ==
    IF n = 0 THEN <<>>
    ELSE PgConcat(replies, n - 1) \o replyAt(replies, n).data

\* Request k was answered with fewer than pageSize items.
PgShort(replies, k) ==
    /\ replyAt(replies, k).kind = "data"
    /\ Len(replyAt(replies, k).data) < PageSize

\* Request k failed or was answered with a body without a data array.
PgBad(replies, k) == replyAt(replies, k).kind # "data"

\* C22: paginateBookStack requests the pages 1, 2, 3, ... in a row, each
\* with count = pageSize, returns the items of all the answers it got in
\* request order, and makes no request after the first answer with fewer
\* than pageSize items, an empty one included.
C22_PaginationContract ==
    \A l \in PgDone :
        LET n == Len(l.out.log)
        IN  /\ n >= 1
            /\ \A k \in 1..n : l.out.log[k] = [page |-> k, count |-> PageSize]
            /\ l.out.results = PgConcat(l.replies, n)
            /\ \A k \in 1..(n - 1) : ~PgShort(l.replies, k)
            /\ PgShort(l.replies, n) \/ PgBad(l.replies, n)

\* A listing of three requests: two full pages, then the empty one.
C22_Witness ==
    /\ pg.phase = "done"
    /\ Len(pg.shelves.log) = PgMaxRequests + 1
    /\ Len(pg.shelves.results) = PgMaxRequests * PageSize
    /\ Len(pg.books.log) = 1
    /\ Len(pg.books.results) = PageSize - 1

\* C23: when request k of a listing fails or is answered with a malformed
\* body, paginateBookStack raises nothing: it returns the items of the
\* pages 1..k-1, makes no request after the k-th, and the hierarchy load
\* goes on with the next listing, which starts at its page 1.
C23_PartialResultOnFailure ==
    /\ \A l \in PgDone :
         \A k \in 1..Len(l.out.log) :
             PgBad(l.replies, k)
             => /\ Len(l.out.log) = k
                /\ l.out.results = PgConcat(l.replies, k - 1)
                /\ Len(l.out.results) = (k - 1) * PageSize
    /\ pg.phase = "done" => /\ pg.books.log # <<>>
                            /\ pg.books.log[1].page = 1
                            /\ pg.shelves = paginateWith(pg.shelfReplies, 1,
                                                          <<>>, <<>>)

\* The second request for the shelves failed; the one page of shelves was
\* kept and the books were listed in full.
C23_Witness ==
    /\ pg.phase = "done"
    /\ pg.shelfReplies[1].kind = "data"
    /\ PgBad(pg.shelfReplies, 2)
    /\ Len(pg.shelves.log) = 2
    /\ Len(pg.shelves.results) = PageSize
    /\ Len(pg.books.results) = PageSize + 1

----------------------------------------------------------------------------
(* Claims about processContent of part_000, checked under ContentSpec      *)

CpReturned == cp.phase \in {"returned", "saved"}

\* No transfer that processContent started is pending once it has returned.
CpNothingInFlight == CpReturned => cp.inFlight = {}

\* An image whose entry is in state.assets is referred to by that locator
\* in the content.
CpCarriesLocators ==
    CpReturned =>
        \A i \in 1..Len(cp.input) :
            /\ cp.input[i].k = "image"
            /\ assetKey(cp.input[i]) \in DOMAIN cp.state.assets
            => cp.content[i] = ImageTo(cp.input[i].alt,
                                       cp.state.assets[assetKey(cp.input[i])])

\* state.assets is the same after every step taken once saveState ran.
CpFrozenAfterSave == cp.phase = "saved" => cp'.state.assets = cp.state.assets

\* C27: processContent of part_000 awaits every image transfer it starts:
\* when it has returned none is in flight, the content carries the
\* locators of the uploaded images, and no step changes state.assets after
\* saveState.
C27_ImageTransfersAwaited ==
    /\ [](CpNothingInFlight /\ CpCarriesLocators)
    /\ [][CpFrozenAfterSave]_vars
====
